---- MODULE Spec2Model ----
(***************************************************************************)
(* A model of device-detector-rs: the template substitutor, the version    *)
(* comparator, the flat-list and brand/model matchers, the device          *)
(* pre-filter and the detection pipeline of DeviceDetector.                *)
(*                                                                         *)
(* Strings are sequences of symbols.  A symbol is one character ("$", ".", *)
(* " ", a digit) or a word atom ("Android", "Apple") standing for a run of *)
(* letters that contains none of the special characters.                   *)
(***************************************************************************)
EXTENDS Integers, Sequences, FiniteSets, TLC

VARIABLES
    args,       \* inputs of the pure function under study (a record)
    ret,        \* its return value, or None before the call
    qs          \* the parse calls in progress: slot -> locals of the call

vars == <<args, ret, qs>>

----------------------------------------------------------------------------
(* Bounds *)

\* longest template drawn for substitute
MaxTplLen == 3
\* longest version string drawn for version_lt
MaxVerLen == 3
\* most rules in a drawn flat-list table
MaxRules == 3
\* most brands in a drawn device file
MaxBrands == 2
\* most fragments and hint fields drawn for one call
MaxFeatures == 2
\* the same, for the calls that are interleaved
MaxConcFeatures == 1

\* Entries of a drawn engine versions mapping.
MaxVersions == 2

\* Faults of a drawn regexes directory.
MaxFaults == 2

\* Fragments of the user agent of two calls that differ in their hints.
MaxPairFragments == 1

\* Alternatives of a drawn pattern, and bytes of a literal or of an input,
\* for extract_literals.
MaxLitAlts == 2
MaxLitLen == 2

----------------------------------------------------------------------------
(* Generic helpers *)

\* Option<T>: None is the empty tuple, Some(x) the one-element tuple.
None == <<>>

Some(x) == <<x>>

IsSome(o) == o # <<>>

Unwrap(o) == o[1]

\* A list held in memory (a Vec): all its elements are there.
Vec(s) == s \o <<>>

EmptyStr == <<>>

RECURSIVE SeqsUpTo(_, _)
SeqsUpTo(S, n) ==
    IF n = 0 THEN {<<>>}
    ELSE LET prev == SeqsUpTo(S, n - 1)
         IN  prev \cup {Append(s, x) : s \in {t \in prev : Len(t) = n - 1}, x \in S}

Digits == {"0", "1", "2", "3", "4", "5", "6", "7", "8", "9"}

IsAsciiDigit(c) == c \in Digits

DigitVal(c) ==
    CASE c = "0" -> 0 [] c = "1" -> 1 [] c = "2" -> 2 [] c = "3" -> 3
      [] c = "4" -> 4 [] c = "5" -> 5 [] c = "6" -> 6 [] c = "7" -> 7
      [] c = "8" -> 8 [] c = "9" -> 9

IsWhitespace(c) == c \in {" ", "\t", "\n"}

----------------------------------------------------------------------------
(* substitution.rs *)

\* Captures: a sequence whose element i+1 is capture group i (group 0 is the
\* whole match); a group is Some(string), or None when it did not participate.
\* Captures::get(idx) is None as well when the regex has no group idx.
CapGet(captures, idx) ==
    IF idx + 1 <= Len(captures) THEN captures[idx + 1] ELSE None

IsTrimChar(c) == IsWhitespace(c) \/ c = "."

RECURSIVE TrimEnd(_)
TrimEnd(s) ==
    IF s = <<>> THEN s
    ELSE IF IsTrimChar(s[Len(s)]) THEN TrimEnd(SubSeq(s, 1, Len(s) - 1))
    ELSE s

ContainsChar(s, c) == \E i \in 1..Len(s) : s[i] = c

\* Variant: a placeholder whose group is missing is copied instead of dropped.
RECURSIVE SubstWalkKeepsMissing(_, _, _, _)
SubstWalkKeepsMissing(template, captures, i, result) ==
    IF i > Len(template) THEN result
    ELSE IF /\ template[i] = "$"
            /\ i + 1 <= Len(template)
            /\ IsAsciiDigit(template[i + 1])
         THEN LET idx == DigitVal(template[i + 1])
                  m == CapGet(captures, idx)
              IN  SubstWalkKeepsMissing(template, captures, i + 2,
                      IF IsSome(m) THEN result \o Unwrap(m)
                      ELSE result \o <<"$", template[i + 1]>>)
         ELSE SubstWalkKeepsMissing(template, captures, i + 1,
                                    Append(result, template[i]))

RECURSIVE SubstWalk(_, _, _, _)
SubstWalk(template, captures, i, result) ==
    IF i > Len(template) THEN result
    ELSE IF /\ template[i] = "$"
            /\ i + 1 <= Len(template)
            /\ IsAsciiDigit(template[i + 1])
         THEN LET idx == DigitVal(template[i + 1])
                  m == CapGet(captures, idx)
              IN  SubstWalk(template, captures, i + 2,
                            IF IsSome(m) THEN result \o Unwrap(m) ELSE result)
         ELSE SubstWalk(template, captures, i + 1, Append(result, template[i]))

substitute(template, captures) ==
    IF ~ContainsChar(template, "$") THEN TrimEnd(template)
    ELSE TrimEnd(SubstWalk(template, captures, 1, <<>>))

----------------------------------------------------------------------------
(* helpers.rs *)

\* u32::MAX = 4294967295, as its decimal digits.
U32MaxDigits == <<4, 2, 9, 4, 9, 6, 7, 2, 9, 5>>

\* str::split('.'): always at least one component, possibly empty.
RECURSIVE SplitDot(_, _, _)
SplitDot(s, i, cur) ==
    IF i > Len(s) THEN <<cur>>
    ELSE IF s[i] = "." THEN <<cur>> \o SplitDot(s, i + 1, <<>>)
    ELSE SplitDot(s, i + 1, Append(cur, s[i]))

RECURSIVE DecimalValue(_, _, _)
DecimalValue(s, i, acc) ==
    IF i > Len(s) THEN acc
    ELSE DecimalValue(s, i + 1, acc * 10 + DigitVal(s[i]))

RECURSIVE StripLeadingZeros(_)
StripLeadingZeros(s) ==
    IF s # <<>> /\ s[1] = "0" THEN StripLeadingZeros(Tail(s)) ELSE s

\* Is the digit string ds (no leading zero, as long as u32::MAX) above it?
RECURSIVE DigitsAboveU32Max(_, _)
DigitsAboveU32Max(ds, i) ==
    IF i > Len(ds) THEN FALSE
    ELSE IF DigitVal(ds[i]) > U32MaxDigits[i] THEN TRUE
    ELSE IF DigitVal(ds[i]) < U32MaxDigits[i] THEN FALSE
    ELSE DigitsAboveU32Max(ds, i + 1)

OverflowsU32(body) ==
    LET ds == StripLeadingZeros(body)
    IN  \/ Len(ds) > Len(U32MaxDigits)
        \/ Len(ds) = Len(U32MaxDigits) /\ DigitsAboveU32Max(ds, 1)

\* str::parse::<u32>().unwrap_or(0): an optional "+", then one or more ASCII
\* digits whose value fits 32 bits; anything else is an error, hence 0.
ParseU32OrZero(comp) ==
    LET body == IF comp # <<>> /\ comp[1] = "+" THEN Tail(comp) ELSE comp
    IN  IF body = <<>> \/ \E i \in 1..Len(body) : ~IsAsciiDigit(body[i]) THEN 0
        ELSE IF OverflowsU32(body) THEN 0
        ELSE DecimalValue(StripLeadingZeros(body), 1, 0)

\* Variant: two versions with the same components compare as "less".
RECURSIVE VersionLtLoopOrEqual(_, _, _)
VersionLtLoopOrEqual(ai, bi, k) ==
    IF k > Len(ai) /\ k > Len(bi) THEN TRUE
    ELSE IF k > Len(ai) THEN ParseU32OrZero(bi[k]) > 0
    ELSE IF k > Len(bi) THEN FALSE
    ELSE LET an == ParseU32OrZero(ai[k])
             bn == ParseU32OrZero(bi[k])
         IN  IF an < bn THEN TRUE
             ELSE IF an > bn THEN FALSE
             ELSE VersionLtLoopOrEqual(ai, bi, k + 1)

RECURSIVE VersionLtLoop(_, _, _)
VersionLtLoop(ai, bi, k) ==
    IF k > Len(ai) /\ k > Len(bi) THEN FALSE
    ELSE IF k > Len(ai) THEN ParseU32OrZero(bi[k]) > 0
    ELSE IF k > Len(bi) THEN FALSE
    ELSE LET an == ParseU32OrZero(ai[k])
             bn == ParseU32OrZero(bi[k])
         IN  IF an < bn THEN TRUE
             ELSE IF an > bn THEN FALSE
             ELSE VersionLtLoop(ai, bi, k + 1)

version_lt(a, b) == VersionLtLoop(SplitDot(a, 1, <<>>), SplitDot(b, 1, <<>>), 1)

version_ge(a, b) == ~version_lt(a, b)

----------------------------------------------------------------------------
(* Regular expressions over abstract user agents.                          *)
(*                                                                         *)
(* A user agent is the set of fragments (tokens) it contains.  A pattern   *)
(* is a record                                                             *)
(*   alts     its alternatives in order, each the fragment it matches and  *)
(*            the capture groups of that match,                            *)
(*   syntax   "std" (the regex crate compiles it), "fancy" (look-around or *)
(*            back-references: only fancy_regex compiles it) or "invalid", *)
(*   bad      the fragments on which the backtracking engine gives up      *)
(*            (BacktrackLimitExceeded) before it decides,                  *)
(*   icase    (?i) applies,                                                *)
(*   prefixed the Matomo boundary prefix is in front,                      *)
(*   suffixed "[^a-z0-9]+" is appended (vendor fragments),                 *)
(*   filtered what the regex_filtered set makes of a pattern the regex     *)
(*            crate compiles: "ok", "push_err" (Builder::push returns a    *)
(*            ParseError for it) or "build_err" (Builder::build returns a  *)
(*            BuildError for a set that holds it).                         *)
(***************************************************************************)

\* Fragments that differ from a canonical fragment only by letter case.
CaseFold(t) ==
    CASE t = "desktop;" -> "Desktop;"
      [] t = "fbmd/" -> "FBMD/"
      [] OTHER -> t

\* Fragments that hold another fragment right after a letter or digit, where
\* the boundary prefix cannot match.
Unembed(t) ==
    CASE t = "xPlayStation" -> "PlayStation"
      [] OTHER -> t

\* Fragments that are another fragment followed by a character that is no
\* letter and no digit.
IsFollowedBySeparator(t) == t \in {"MDDR;"}

Unfollow(t) ==
    CASE t = "MDDR;" -> "MDDR"
      [] OTHER -> t

Alt(tok, caps) == [tok |-> tok, caps |-> caps]

PatAlts(alts, syntax, bad) ==
    [alts |-> alts, syntax |-> syntax, bad |-> bad,
     icase |-> FALSE, prefixed |-> FALSE, suffixed |-> FALSE, filtered |-> "ok"]

\* A pattern of one alternative whose groups are given.
Pat(tok, syntax, bad, caps) == PatAlts(<<Alt(tok, caps)>>, syntax, bad)

\* A pattern without capture groups: group 0 only.
Lit(tok) == Pat(tok, "std", {}, <<Some(<<tok>>)>>)

\* parser.rs full_pattern: "(?i)" + MATOMO_BOUNDARY_PREFIX + "(?:" pattern ")"
full_pattern(pattern) == [pattern EXCEPT !.icase = TRUE, !.prefixed = TRUE]

\* Does fragment t of the user agent satisfy the pattern?
TokMatches(pattern, tok, t) ==
    LET t1 == IF pattern.prefixed THEN t ELSE Unembed(t)
        t2 == Unfollow(t1)
    IN  /\ pattern.suffixed => IsFollowedBySeparator(t1)
        /\ IF pattern.icase THEN CaseFold(t2) = CaseFold(tok) ELSE t2 = tok

\* The alternatives of the pattern that some fragment of the user agent
\* satisfies, as positions in alts.
MatchingAlts(pattern, ua) ==
    {k \in 1..Len(pattern.alts) : \E t \in ua : TokMatches(pattern, pattern.alts[k].tok, t)}

PatMatches(pattern, ua) == MatchingAlts(pattern, ua) # {}

\* The groups of the match: those of the first alternative that matches.
PatCaps(pattern, ua) ==
    LET m == MatchingAlts(pattern, ua)
    IN  pattern.alts[CHOOSE k \in m : \A j \in m : k <= j].caps

\* regex::Regex::new(p).is_ok()
regex_new_is_ok(pattern) == pattern.syntax = "std"

\* fancy_regex::Regex::new(p): Ok(regex) or Err
fancy_new_is_ok(pattern) == pattern.syntax \in {"std", "fancy"}

\* regex_filtered::Builder::push(p): Ok(builder) or Err(ParseError)
filtered_push_is_ok(pattern) ==
    pattern.syntax = "std" /\ pattern.filtered # "push_err"

\* regex_filtered::Builder::build() on the pushed patterns: Ok(set) or
\* Err(BuildError)
filtered_build_is_ok(patterns) ==
    \A k \in 1..Len(patterns) : patterns[k].filtered # "build_err"

\* What the two build functions do with the classified patterns: the
\* standard ones are pushed with expect(), the set is built with ?, the
\* others are compiled by fancy_regex with ?.  "" when all of it succeeds.
BuildError(filtered, fancy) ==
    IF \E k \in 1..Len(filtered) : ~filtered_push_is_ok(filtered[k]) THEN "panic"
    ELSE IF ~filtered_build_is_ok(filtered) THEN "RegexFilteredBuild"
    ELSE IF \E k \in 1..Len(fancy) : ~fancy_new_is_ok(fancy[k].re) THEN "Regex"
    ELSE ""

\* regex::Regex::is_match / captures(..).is_some(): the automaton engine
\* always decides.
std_is_match(re, ua) == PatMatches(re, ua)

\* fancy_regex::Regex::is_match: "true", "false" or "err".  A pattern without
\* look-around is delegated to the regex crate and always decides.
fancy_is_match(re, ua) ==
    IF re.syntax = "fancy" /\ (re.bad \cap ua) # {} THEN "err"
    ELSE IF PatMatches(re, ua) THEN "true" ELSE "false"

\* fancy_regex::Regex::captures: Ok(Some(groups)), Ok(None) or Err.
fancy_captures(re, ua) ==
    IF re.syntax = "fancy" /\ (re.bad \cap ua) # {} THEN [st |-> "err", caps |-> <<>>]
    ELSE IF PatMatches(re, ua) THEN [st |-> "some", caps |-> PatCaps(re, ua)]
    ELSE [st |-> "none", caps |-> <<>>]

\* regex::Regex::captures: Some(groups) or None.
std_captures(re, ua) ==
    IF PatMatches(re, ua) THEN [st |-> "some", caps |-> PatCaps(re, ua)]
    ELSE [st |-> "none", caps |-> <<>>]

----------------------------------------------------------------------------
(* parser.rs: CompiledParser, the flat-list matcher.  Entry indices are    *)
(* 1-based here and 0-based in the code.                                   *)

\* The cutoff of match_first: Some(index of the best filtered match), or
\* None for usize::MAX, which is above every entry index.
AtOrAboveCutoff(idx, cutoff) == IsSome(cutoff) /\ idx >= Unwrap(cutoff)

AtOrBelowCutoff(idx, cutoff) == ~IsSome(cutoff) \/ idx <= Unwrap(cutoff)

\* The indices i of a Boolean sequence with flags[i] = want, ascending.
RECURSIVE IndicesOf(_, _, _)
IndicesOf(flags, want, i) ==
    IF i > Len(flags) THEN <<>>
    ELSE (IF flags[i] = want THEN <<i>> ELSE <<>>) \o IndicesOf(flags, want, i + 1)

\* CompiledParser::build after phase 2: the parser of the items, given the
\* collected classification is_standard.
CompiledParser_from(items, is_standard) ==
    LET n == Len(items)
        full_patterns == [i \in 1..n |-> full_pattern(items[i].pattern)]
        data == [i \in 1..n |-> items[i].data]
        filtered_to_entry == IndicesOf(is_standard, TRUE, 1)
        filtered == [k \in 1..Len(filtered_to_entry) |->
                        full_patterns[filtered_to_entry[k]]]
        fancy_indices == IndicesOf(is_standard, FALSE, 1)
        fancy_entries == [k \in 1..Len(fancy_indices) |->
                             [idx |-> fancy_indices[k],
                              re |-> full_patterns[fancy_indices[k]]]]
        error == BuildError(filtered, fancy_entries)
    IN  IF error = ""
        THEN [ok |-> TRUE, error |-> "", filtered |-> Vec(filtered),
              filtered_to_entry |-> filtered_to_entry,
              fancy_entries |-> Vec(fancy_entries), data |-> Vec(data)]
        ELSE [ok |-> FALSE, error |-> error, filtered |-> <<>>,
              filtered_to_entry |-> <<>>, fancy_entries |-> <<>>, data |-> <<>>]

\* CompiledParser::build over a sequence of [pattern, data] items.
CompiledParser_build(items) ==
    CompiledParser_from(items,
        [i \in 1..Len(items) |-> regex_new_is_ok(full_pattern(items[i].pattern))])

\* regex_filtered::Regexes::matching: the indices of the set's regexes that
\* match, in ascending order (parser.rs relies on that order).
RECURSIVE filtered_matching(_, _, _)
filtered_matching(filtered, ua, k) ==
    IF k > Len(filtered) THEN <<>>
    ELSE (IF std_is_match(filtered[k], ua) THEN <<k>> ELSE <<>>)
         \o filtered_matching(filtered, ua, k + 1)

\* Variant: the first loop does not stop at the cutoff.
RECURSIVE FancyIgnoringCutoff(_, _, _, _)
FancyIgnoringCutoff(fancy_entries, k, cutoff, ua) ==
    IF k > Len(fancy_entries) THEN None
    ELSE IF fancy_captures(fancy_entries[k].re, ua).st = "some" THEN Some(k)
    ELSE FancyIgnoringCutoff(fancy_entries, k + 1, cutoff, ua)

\* First loop of match_first: the fancy entries below the cutoff, in order;
\* the position of the first one whose captures() is Ok(Some), else None.
RECURSIVE FancyBelowCutoff(_, _, _, _)
FancyBelowCutoff(fancy_entries, k, cutoff, ua) ==
    IF k > Len(fancy_entries) THEN None
    ELSE IF AtOrAboveCutoff(fancy_entries[k].idx, cutoff) THEN None
    ELSE IF fancy_captures(fancy_entries[k].re, ua).st = "some" THEN Some(k)
    ELSE FancyBelowCutoff(fancy_entries, k + 1, cutoff, ua)

\* Last loop of match_first: the fancy entries above the cutoff, in order.
RECURSIVE FancyAboveCutoff(_, _, _, _)
FancyAboveCutoff(fancy_entries, k, cutoff, ua) ==
    IF k > Len(fancy_entries) THEN None
    ELSE IF AtOrBelowCutoff(fancy_entries[k].idx, cutoff)
         THEN FancyAboveCutoff(fancy_entries, k + 1, cutoff, ua)
    ELSE IF fancy_captures(fancy_entries[k].re, ua).st = "some" THEN Some(k)
    ELSE FancyAboveCutoff(fancy_entries, k + 1, cutoff, ua)

MatchResult(data, captures, engine) ==
    [data |-> data, captures |-> captures, engine |-> engine]

\* CompiledParser::match_first
CompiledParser_match_first(parser, ua) ==
    LET hits == filtered_matching(parser.filtered, ua, 1)
        best_filtered ==
            IF hits = <<>> THEN None
            ELSE Some([entry_idx |-> parser.filtered_to_entry[hits[1]],
                       re |-> parser.filtered[hits[1]]])
        cutoff == IF IsSome(best_filtered) THEN Some(Unwrap(best_filtered).entry_idx)
                  ELSE None
        fe == parser.fancy_entries
        below == FancyBelowCutoff(fe, 1, cutoff, ua)
        above == FancyAboveCutoff(fe, 1, cutoff, ua)
    IN  IF IsSome(below)
        THEN Some(MatchResult(parser.data[fe[Unwrap(below)].idx],
                              fancy_captures(fe[Unwrap(below)].re, ua).caps, "Fancy"))
        ELSE IF IsSome(best_filtered)
                /\ std_captures(Unwrap(best_filtered).re, ua).st = "some"
        THEN Some(MatchResult(parser.data[Unwrap(best_filtered).entry_idx],
                              std_captures(Unwrap(best_filtered).re, ua).caps,
                              "Standard"))
        ELSE IF IsSome(cutoff) /\ IsSome(above)
        THEN Some(MatchResult(parser.data[fe[Unwrap(above)].idx],
                              fancy_captures(fe[Unwrap(above)].re, ua).caps, "Fancy"))
        ELSE None

----------------------------------------------------------------------------
(* parser.rs: DeviceBrandParser, the brand-gate + model matcher.           *)

\* match_model: the first model entry, in list order, whose is_match is
\* Ok(true) and whose captures is Ok(Some).
RECURSIVE match_model(_, _, _)
match_model(ua, models, j) ==
    IF j > Len(models) THEN None
    ELSE IF /\ fancy_is_match(models[j].regex, ua) = "true"
            /\ fancy_captures(models[j].regex, ua).st = "some"
         THEN Some(MatchResult(models[j].data,
                               fancy_captures(models[j].regex, ua).caps, "Fancy"))
         ELSE match_model(ua, models, j + 1)

\* DeviceBrandParser::build over a sequence of
\* [pattern (already full), data, models (compiled entries)] items.
DeviceBrandParser_build(items) ==
    LET n == Len(items)
        full_patterns == [i \in 1..n |-> items[i].pattern]
        brands == [i \in 1..n |-> [data |-> items[i].data, models |-> items[i].models]]
        is_standard == [i \in 1..n |-> regex_new_is_ok(full_patterns[i])]
        filtered_to_brand == IndicesOf(is_standard, TRUE, 1)
        filtered == [k \in 1..Len(filtered_to_brand) |->
                        full_patterns[filtered_to_brand[k]]]
        fancy_indices == IndicesOf(is_standard, FALSE, 1)
        fancy_brands == [k \in 1..Len(fancy_indices) |->
                            [idx |-> fancy_indices[k],
                             re |-> full_patterns[fancy_indices[k]]]]
        error == BuildError(filtered, fancy_brands)
    IN  IF error = ""
        THEN [ok |-> TRUE, error |-> "", filtered |-> Vec(filtered),
              filtered_to_brand |-> filtered_to_brand,
              fancy_brands |-> Vec(fancy_brands), brands |-> Vec(brands)]
        ELSE [ok |-> FALSE, error |-> error, filtered |-> <<>>,
              filtered_to_brand |-> <<>>, fancy_brands |-> <<>>, brands |-> <<>>]

\* A fancy brand gate fires when is_match is Ok(true) and captures is Ok(Some).
FancyGateFires(re, ua) ==
    fancy_is_match(re, ua) = "true" /\ fancy_captures(re, ua).st = "some"

RECURSIVE FancyBrandBelowCutoff(_, _, _, _)
FancyBrandBelowCutoff(fancy_brands, k, cutoff, ua) ==
    IF k > Len(fancy_brands) THEN None
    ELSE IF AtOrAboveCutoff(fancy_brands[k].idx, cutoff) THEN None
    ELSE IF FancyGateFires(fancy_brands[k].re, ua) THEN Some(k)
    ELSE FancyBrandBelowCutoff(fancy_brands, k + 1, cutoff, ua)

RECURSIVE FancyBrandAboveCutoff(_, _, _, _)
FancyBrandAboveCutoff(fancy_brands, k, cutoff, ua) ==
    IF k > Len(fancy_brands) THEN None
    ELSE IF AtOrBelowCutoff(fancy_brands[k].idx, cutoff)
         THEN FancyBrandAboveCutoff(fancy_brands, k + 1, cutoff, ua)
    ELSE IF FancyGateFires(fancy_brands[k].re, ua) THEN Some(k)
    ELSE FancyBrandAboveCutoff(fancy_brands, k + 1, cutoff, ua)

\* Variant: when no model of the matched brand matches, the models of the
\* next brand are tried.
BrandMatchResultFallsThrough(parser, ua, brand_idx, captures, engine) ==
    LET own == match_model(ua, parser.brands[brand_idx].models, 1)
    IN  [brand_data |-> parser.brands[brand_idx].data,
         brand_captures |-> captures,
         engine |-> engine,
         model_match |->
            IF IsSome(own) \/ brand_idx = Len(parser.brands) THEN own
            ELSE match_model(ua, parser.brands[brand_idx + 1].models, 1)]

\* The brand whose gate fired, its gate captures, and the model lookup within
\* that brand.
BrandMatchResult(parser, ua, brand_idx, captures, engine) ==
    [brand_data |-> parser.brands[brand_idx].data,
     brand_captures |-> captures,
     engine |-> engine,
     model_match |-> match_model(ua, parser.brands[brand_idx].models, 1)]

\* DeviceBrandParser::match_first
DeviceBrandParser_match_first(parser, ua) ==
    LET hits == filtered_matching(parser.filtered, ua, 1)
        best_filtered ==
            IF hits = <<>> THEN None
            ELSE Some([brand_idx |-> parser.filtered_to_brand[hits[1]],
                       re |-> parser.filtered[hits[1]]])
        cutoff == IF IsSome(best_filtered) THEN Some(Unwrap(best_filtered).brand_idx)
                  ELSE None
        fb == parser.fancy_brands
        below == FancyBrandBelowCutoff(fb, 1, cutoff, ua)
        above == FancyBrandAboveCutoff(fb, 1, cutoff, ua)
    IN  IF IsSome(below)
        THEN Some(BrandMatchResult(parser, ua, fb[Unwrap(below)].idx,
                      fancy_captures(fb[Unwrap(below)].re, ua).caps, "Fancy"))
        ELSE IF IsSome(best_filtered)
                /\ std_captures(Unwrap(best_filtered).re, ua).st = "some"
        THEN Some(BrandMatchResult(parser, ua, Unwrap(best_filtered).brand_idx,
                      std_captures(Unwrap(best_filtered).re, ua).caps, "Standard"))
        ELSE IF IsSome(cutoff) /\ IsSome(above)
        THEN Some(BrandMatchResult(parser, ua, fb[Unwrap(above)].idx,
                      fancy_captures(fb[Unwrap(above)].re, ua).caps, "Fancy"))
        ELSE None

----------------------------------------------------------------------------
(* device_prefilter.rs *)

\* brand_regexes.join("|"): the alternation of the raw brand patterns.  It
\* needs the backtracking engine as soon as one alternative does, and gives
\* up wherever one of those alternatives does.
RECURSIVE JoinPatterns(_, _)
JoinPatterns(brand_regexes, i) ==
    IF i > Len(brand_regexes) THEN PatAlts(<<>>, "std", {})
    ELSE LET p == brand_regexes[i]
             rest == JoinPatterns(brand_regexes, i + 1)
         IN  PatAlts(p.alts \o rest.alts,
                     IF "invalid" \in {p.syntax, rest.syntax} THEN "invalid"
                     ELSE IF "fancy" \in {p.syntax, rest.syntax} THEN "fancy"
                     ELSE "std",
                     (IF p.syntax = "fancy" THEN p.bad ELSE {}) \cup rest.bad)

\* DevicePrefilter::build_overall_prefilter
build_overall_prefilter(brand_regexes) ==
    IF brand_regexes = <<>>
    THEN [ok |-> TRUE, kind |-> "None", re |-> PatAlts(<<>>, "std", {})]
    ELSE LET full == full_pattern(JoinPatterns(brand_regexes, 1))
         IN  IF fancy_new_is_ok(full)
             THEN [ok |-> TRUE, kind |-> "OverallMatch", re |-> full]
             ELSE [ok |-> FALSE, kind |-> "Regex error", re |-> full]

\* DevicePrefilter::matches
DevicePrefilter_matches(prefilter, ua) ==
    IF prefilter.kind = "None" THEN TRUE
    ELSE IF fancy_is_match(prefilter.re, ua) = "true" THEN TRUE
    ELSE FALSE

----------------------------------------------------------------------------
(* The rule files under the regexes directory: a small rule set with the   *)
(* shapes of the Matomo files (db.rs gives the schema).                    *)

Str(w) == <<w>>

G0(tok) == <<Some(Str(tok))>>

\* Groups 0 and 1 of a match.
G1(tok, g1) == <<Some(Str(tok)), Some(g1)>>

BotsYml ==
    << [regex |-> Pat("bingbot", "fancy", {"HEAVY"}, G0("bingbot")),
        name |-> Str("BingBot"), category |-> Some("Search bot"),
        url |-> None, producer |-> None],
       [regex |-> Pat("Googlebot", "std", {}, G0("Googlebot")),
        name |-> <<"Googlebot", ".">>, category |-> Some("Search bot"),
        url |-> Some("http://www.google.com/bot.html"),
        producer |-> Some([name |-> Some("Google Inc."), url |-> None])] >>

OssYml ==
    << [regex |-> PatAlts(<<Alt("Android 1.5", G1("Android 1.5", <<"1", ".", "5">>)),
                            Alt("Android 3.1", G1("Android 3.1", <<"3", ".", "1">>)),
                            Alt("Android 10", G1("Android 10", <<"1", "0">>)),
                            Alt("Android; Mobile;", <<Some(Str("Android")), None>>),
                            Alt("Android TV", <<Some(Str("Android")), None>>)>>,
                          "std", {}),
        name |-> Str("Android"), version |-> Some(<<"$", "1">>)],
       [regex |-> Lit("iPhone OS"), name |-> Str("iOS"), version |-> None],
       [regex |-> Lit("Mac OS X"), name |-> Str("Mac"), version |-> None],
       [regex |-> Lit("Windows RT"), name |-> Str("Windows RT"), version |-> Some(EmptyStr)],
       [regex |-> Lit("Windows NT 10.0"), name |-> Str("Windows"),
        version |-> Some(<<"1", "0">>)],
       [regex |-> Lit("Windows NT 6.1"), name |-> Str("Windows"), version |-> Some(<<"7">>)],
       [regex |-> Lit("KAIOS"), name |-> Str("KaiOS"), version |-> None],
       [regex |-> Lit("J2ME"), name |-> Str("Java ME"), version |-> None],
       [regex |-> Lit("Coolita"), name |-> Str("Coolita OS"), version |-> None] >>

BrowsersYml ==
    << [regex |-> Pat("Chrome/90", "std", {}, G1("Chrome/90", <<"9", "0">>)),
        name |-> Str("Chrome"), version |-> Some(<<"$", "1">>),
        engine |-> Some([default |-> Some(Str("WebKit")),
                         versions |-> Some(<<[threshold |-> <<"2", "8">>,
                                              name |-> Str("Blink")]>>)])],
       [regex |-> Lit("Kylo/"), name |-> Str("Kylo"), version |-> None,
        engine |-> Some([default |-> Some(Str("Gecko")), versions |-> None])] >>

FeedReadersYml ==
    << [regex |-> Lit("Akregator"), name |-> Str("Akregator"), version |-> None,
        engine |-> None] >>

MobileAppsYml ==
    << [regex |-> Pat("myapp/2", "std", {}, G1("myapp/2", <<"2">>)),
        name |-> Str("myapp"), version |-> Some(<<"$", "1">>), engine |-> None] >>

LibrariesYml ==
    << [regex |-> Lit("curl"), name |-> Str("curl"), version |-> None,
        engine |-> None] >>

MediaPlayersYml ==
    << [regex |-> Lit("VLC"), name |-> Str("VLC"), version |-> None,
        engine |-> None] >>

PimYml ==
    << [regex |-> Lit("Outlook"), name |-> Str("Outlook"), version |-> None,
        engine |-> None] >>

BrowserEngineYml ==
    << [regex |-> Pat("AppleWebKit/537", "std", {}, G1("AppleWebKit/537", <<"5", "3", "7">>)),
        name |-> Str("WebKit")],
       [regex |-> Pat("Chrome/90", "std", {}, G1("Chrome/90", <<"9", "0">>)),
        name |-> Str("Blink")] >>

\* Ordered mapping brand -> fragments.
VendorFragmentsYml ==
    << [brand |-> Str("Dell"), patterns |-> <<Lit("MDDR")>>],
       [brand |-> Str("Medion"), patterns |-> <<Lit("MAAR"), Lit("MDDR")>>] >>

AppHintsYml == [k \in {"com.myapp"} |-> Str("MyApp")]

\* The package of the app is also a key of the browser hints.
BrowserHintsYml == [k \in {"com.android.chrome", "com.myapp"} |-> Str("Chrome")]

\* Ordered mapping brand -> entry; an entry without regex is skipped.
Brand(name, regex, device, model, models) ==
    [name |-> name, regex |-> regex, device |-> device, model |-> model,
     models |-> models]

Model(regex, model, device, brand) ==
    [regex |-> regex, model |-> model, device |-> device, brand |-> brand]

ShellTvYml ==
    << Brand(Str("Telefunken"), Some(Lit("Telefunken Shell")), Some("tv"), None, None) >>

TelevisionsYml ==
    << Brand(Str("Vestel"), Some(Lit("HbbTV/Vestel")), Some("tv"), Some(Str("Smart TV")), None) >>

ConsolesYml ==
    << Brand(Str("Archos"), None, Some("console"), None, None),
       Brand(Str("Sony"), Some(Lit("PlayStation")), Some("console"),
             Some(Str("PlayStation")), None),
       Brand(Str("Microsoft"), Some(Pat("Xbox", "fancy", {"HEAVY"}, G0("Xbox"))),
             Some("console"), Some(Str("Xbox")), None) >>

CarBrowsersYml ==
    << Brand(Str("Tesla"), Some(Lit("Tesla/")), Some("car browser"), None, None) >>

CamerasYml ==
    << Brand(Str("Nikon"), Some(Lit("Coolpix")), Some("camera"), None, None) >>

PortableMediaPlayerYml ==
    << Brand(Str("Apple"), Some(Lit("iPod")), Some("portable media player"),
             Some(Str("iPod")), None) >>

NotebooksYml ==
    << Brand(Str("Acer"), Some(Lit("FBMD/Aspire")), Some("notebook"), None, None) >>

MobilesYml ==
    << Brand(Str("Samsung"),
             Some(PatAlts(<<Alt("SM-G973F", G0("SM-G973F")),
                            Alt("SM-X", G1("SM-X", Str("X")))>>, "std", {})),
             Some("smartphone"), Some(<<"SM", " ", "$", "1", ".">>),
             Some(<<Model(Pat("SM-G973F", "fancy", {"HEAVY"}, G0("SM-G973F")),
                          Some(Str("Galaxy S10")), None, None)>>)),
       Brand(Str("Apple"),
             Some(PatAlts(<<Alt("iPhone", G0("iPhone")), Alt("iPad", G0("iPad"))>>,
                          "std", {})),
             None, None,
             Some(<<Model(Lit("iPad"), Some(Str("iPad")), Some("tablet"), None),
                    Model(Lit("iPhone"), Some(Str("iPhone")), None, None)>>)),
       Brand(Str("Unknown"), Some(Lit("WebTV")), Some("feature phone"), None, None) >>

RegexesDir ==
    [bots |-> BotsYml, oss |-> OssYml, browsers |-> BrowsersYml,
     feed_readers |-> FeedReadersYml, mobile_apps |-> MobileAppsYml,
     libraries |-> LibrariesYml, mediaplayers |-> MediaPlayersYml, pim |-> PimYml,
     browser_engine |-> BrowserEngineYml, vendorfragments |-> VendorFragmentsYml,
     app_hints |-> AppHintsYml, browser_hints |-> BrowserHintsYml,
     shell_tv |-> ShellTvYml, televisions |-> TelevisionsYml,
     consoles |-> ConsolesYml, car_browsers |-> CarBrowsersYml,
     cameras |-> CamerasYml, portable_media_player |-> PortableMediaPlayerYml,
     notebooks |-> NotebooksYml, mobiles |-> MobilesYml,
     unreadable |-> {}, malformed |-> {}]

----------------------------------------------------------------------------
(* types/device_type.rs, os_helpers.rs *)

DeviceTypeNames ==
    {"desktop", "smartphone", "tablet", "phablet", "feature phone", "console",
     "tv", "car browser", "camera", "portable media player", "notebook",
     "smart display", "smart speaker", "wearable", "peripheral"}

\* str::to_lowercase on the device strings of the rule files.
ToLowercaseWord(w) ==
    CASE w = "TV" -> "tv"
      [] w = "Smartphone" -> "smartphone"
      [] OTHER -> w

\* DeviceType::from_str
DeviceType_from_str(w) ==
    LET l == ToLowercaseWord(w)
    IN  IF l = "television" THEN Some("tv")
        ELSE IF l \in DeviceTypeNames THEN Some(l)
        ELSE None

\* os_helpers.rs is not part of the sources at hand; the two predicates are
\* taken from the specification: the Android family and the desktop systems.
is_android_os(name) == name \in {Str("Android"), Str("Fire OS")}

is_desktop_os(name) ==
    name \in {Str("Windows"), Str("Windows RT"), Str("Mac"), Str("GNU/Linux")}

----------------------------------------------------------------------------
(* device_detector.rs: construction *)

\* HeuristicRegexes::compile: each pattern wrapped like full_pattern.
HeuristicRegexes_compile ==
    [vr |-> full_pattern(Lit("Mobile VR;")),
     chrome_android |-> full_pattern(Lit("Chrome/90")),
     mobile_elibom |-> full_pattern(PatAlts(<<Alt("Mobile", G0("Mobile")),
                                              Alt("Android; Mobile;", G0("Mobile")),
                                              Alt("Mobile VR;", G0("Mobile"))>>,
                                            "std", {})),
     pad_apad |-> full_pattern(Lit("Pad/APad")),
     android_tablet |-> full_pattern(PatAlts(<<Alt("Tablet;", G0("Tablet")),
                                               Alt("Opera Tablet", G0("Tablet"))>>,
                                             "fancy", {"HEAVY"})),
     opera_tablet |-> full_pattern(Lit("Opera Tablet")),
     android_mobile |-> full_pattern(Lit("Android; Mobile;")),
     touch |-> full_pattern(Lit("Touch")),
     puffin_desktop |-> full_pattern(Lit("Puffin/7.0LD")),
     puffin_smartphone |-> full_pattern(Lit("Puffin/7.0AP")),
     puffin_tablet |-> full_pattern(Lit("Puffin/7.0AT")),
     opera_tv |-> full_pattern(Lit("Opera TV Store")),
     android_tv |-> full_pattern(Lit("Android TV")),
     smart_tv_tizen |-> full_pattern(Lit("SmartTV")),
     tv_fragment |-> full_pattern(Lit("(TV;")),
     desktop_fragment |-> full_pattern(Lit("Desktop;"))]

\* str::contains("Desktop"): a plain, case-sensitive substring test.
DesktopSubstring == PatAlts(<<Alt("Desktop", <<>>), Alt("Desktop;", <<>>)>>, "std", {})

\* build_client_parser
build_client_parser(entries, kind) ==
    CompiledParser_build(
        [i \in 1..Len(entries) |->
            [pattern |-> entries[i].regex,
             data |-> [kind |-> kind,
                       name |-> entries[i].name,
                       version_template |-> entries[i].version,
                       engine_default |->
                           IF IsSome(entries[i].engine)
                           THEN Unwrap(entries[i].engine).default ELSE None,
                       engine_versions |->
                           IF IsSome(entries[i].engine)
                           THEN Unwrap(entries[i].engine).versions ELSE None]]])

\* compile_regex
compile_regex(pattern) ==
    [ok |-> fancy_new_is_ok(full_pattern(pattern)), regex |-> full_pattern(pattern)]

HasRegex(entry) == IsSome(entry.regex)

\* The closure build_device_brand_parser maps over the brands in parallel:
\* (full pattern, brand data, compiled model entries) of one brand, and
\* whether its model regexes compiled.
BuiltBrandItem(entry, default_type) ==
    LET models == IF IsSome(entry.models) THEN Unwrap(entry.models) ELSE <<>>
        device_type ==
            IF IsSome(entry.device) /\ IsSome(DeviceType_from_str(Unwrap(entry.device)))
            THEN DeviceType_from_str(Unwrap(entry.device))
            ELSE Some(default_type)
        ModelType(model) ==
            IF IsSome(model.device) THEN DeviceType_from_str(Unwrap(model.device))
            ELSE None
    IN  [pattern |-> full_pattern(Unwrap(entry.regex)),
         data |-> [brand |-> entry.name,
                   model_template |-> entry.model,
                   device_type |-> device_type],
         models |->
            Vec([j \in 1..Len(models) |->
                [regex |-> compile_regex(models[j].regex).regex,
                 data |-> [brand |-> models[j].brand,
                           model_template |-> models[j].model,
                           device_type |-> ModelType(models[j])]]]),
         models_ok |-> \A j \in 1..Len(models) : compile_regex(models[j].regex).ok]

\* build_device_brand_parser: (parser, brand_regex_strings)
build_device_brand_parser(brands, default_type) ==
    LET brand_items == SelectSeq(brands, HasRegex)
        n == Len(brand_items)
        brand_regex_strings == [i \in 1..n |-> Unwrap(brand_items[i].regex)]
        built_items == [i \in 1..n |-> BuiltBrandItem(brand_items[i], default_type)]
        models_ok == \A i \in 1..n : built_items[i].models_ok
        parser == DeviceBrandParser_build(built_items)
        error == IF ~models_ok THEN "Regex" ELSE parser.error
    IN  [ok |-> error = "", error |-> error, parser |-> parser,
         brand_regexes |-> brand_regex_strings]

\* The device files of from_dir, in order: file, default type, pre-filter
\* kind (with the pattern of a Specific one), claims_type.
DeviceSpecs ==
    << [file |-> "shell_tv", device_type |-> "tv", prefilter_kind |-> "Specific",
        pat |-> [PatAlts(<<Alt("Shell", <<>>), Alt("Telefunken Shell", <<>>)>>, "std", {})
                    EXCEPT !.icase = TRUE],
        claims_type |-> TRUE],
       [file |-> "televisions", device_type |-> "tv", prefilter_kind |-> "Specific",
        pat |-> [PatAlts(<<Alt("HbbTV/", <<>>), Alt("HbbTV/Vestel", <<>>)>>, "std", {})
                    EXCEPT !.icase = TRUE],
        claims_type |-> TRUE],
       [file |-> "consoles", device_type |-> "console", prefilter_kind |-> "Overall",
        pat |-> PatAlts(<<>>, "std", {}), claims_type |-> FALSE],
       [file |-> "car_browsers", device_type |-> "car browser",
        prefilter_kind |-> "Overall",
        pat |-> PatAlts(<<>>, "std", {}), claims_type |-> FALSE],
       [file |-> "cameras", device_type |-> "camera", prefilter_kind |-> "Overall",
        pat |-> PatAlts(<<>>, "std", {}), claims_type |-> FALSE],
       [file |-> "portable_media_player", device_type |-> "portable media player",
        prefilter_kind |-> "Overall",
        pat |-> PatAlts(<<>>, "std", {}), claims_type |-> FALSE],
       [file |-> "notebooks", device_type |-> "notebook", prefilter_kind |-> "Specific",
        pat |-> PatAlts(<<Alt("FBMD/", <<>>), Alt("FBMD/Aspire", <<>>)>>, "std", {}),
        claims_type |-> FALSE],
       [file |-> "mobiles", device_type |-> "smartphone", prefilter_kind |-> "None",
        pat |-> PatAlts(<<>>, "std", {}), claims_type |-> FALSE] >>

\* load_yaml: Ok(value), Err(IO) when the file cannot be read, Err(YAML) when
\* its content does not deserialise.
load_yaml(dir, file) ==
    IF file \in dir.unreadable THEN [ok |-> FALSE, error |-> "IO", value |-> <<>>]
    ELSE IF file \in dir.malformed THEN [ok |-> FALSE, error |-> "YAML", value |-> <<>>]
    ELSE [ok |-> TRUE, error |-> "", value |-> dir[file]]

\* One device parser of from_dir: (default_type, prefilter, claims_type, parser).
BuildDeviceParser(dir, spec) ==
    LET loaded == load_yaml(dir, spec.file)
        built == build_device_brand_parser(loaded.value, spec.device_type)
        prefilter ==
            IF spec.prefilter_kind = "Specific"
            THEN [ok |-> fancy_new_is_ok(spec.pat), kind |-> "Regex", re |-> spec.pat]
            ELSE IF spec.prefilter_kind = "Overall"
            THEN build_overall_prefilter(built.brand_regexes)
            ELSE [ok |-> TRUE, kind |-> "None", re |-> PatAlts(<<>>, "std", {})]
        error == IF ~loaded.ok THEN loaded.error
                 ELSE IF ~built.ok THEN built.error
                 ELSE IF ~prefilter.ok THEN "Regex"
                 ELSE ""
    IN  [ok |-> error = "", error |-> error,
         default_type |-> spec.device_type, prefilter |-> prefilter,
         claims_type |-> spec.claims_type, parser |-> built.parser]

\* The vendor-fragment items: every fragment of every brand, in order, with
\* "[^a-z0-9]+" appended.
RECURSIVE VendorFragmentItems(_, _)
VendorFragmentItems(vf_map, i) ==
    IF i > Len(vf_map) THEN <<>>
    ELSE [j \in 1..Len(vf_map[i].patterns) |->
             [pattern |-> [vf_map[i].patterns[j] EXCEPT !.suffixed = TRUE],
              data |-> [brand |-> vf_map[i].brand]]]
         \o VendorFragmentItems(vf_map, i + 1)

\* The client files of from_dir with the kind of each, in order.
ClientSpecs ==
    << [file |-> "browsers", kind |-> "browser"],
       [file |-> "feed_readers", kind |-> "feed reader"],
       [file |-> "mobile_apps", kind |-> "mobile app"],
       [file |-> "libraries", kind |-> "library"],
       [file |-> "mediaplayers", kind |-> "mediaplayer"],
       [file |-> "pim", kind |-> "pim"] >>

\* The ways a parallel map over fallible tasks can end, given the error of
\* each task ("" for none): without error when no task has one, else with
\* the error of any of the failing tasks, since a task that has not started
\* when another one fails is skipped.
GroupOutcomes(errors) == IF errors \subseteq {""} THEN {""} ELSE errors \ {""}

\* The ways a sequence of stages can end, each stage a set of task errors:
\* the first stage that fails ends it.
RECURSIVE ChainOutcomes(_, _)
ChainOutcomes(stages, i) ==
    IF i > Len(stages) THEN {""}
    ELSE IF GroupOutcomes(stages[i]) = {""} THEN ChainOutcomes(stages, i + 1)
    ELSE GroupOutcomes(stages[i])

\* DeviceDetector::from_dir.  outcomes holds every way the call can end: ""
\* for Ok, "panic", or the variant of the Error returned.
from_dir(dir) ==
    LET Loaded(file) == load_yaml(dir, file)
        Stage(file, parser) ==
            {IF ~Loaded(file).ok THEN Loaded(file).error ELSE parser.error}
        bots == Loaded("bots").value
        bot_parser == CompiledParser_build(
            [i \in 1..Len(bots) |->
                [pattern |-> bots[i].regex,
                 data |-> [name |-> bots[i].name, category |-> bots[i].category,
                           url |-> bots[i].url, producer |-> bots[i].producer]]])
        oss == Loaded("oss").value
        os_parser == CompiledParser_build(
            [i \in 1..Len(oss) |->
                [pattern |-> oss[i].regex,
                 data |-> [name |-> oss[i].name, version_template |-> oss[i].version]]])
        client_parsers ==
            Vec([k \in 1..Len(ClientSpecs) |->
                    build_client_parser(Loaded(ClientSpecs[k].file).value,
                                        ClientSpecs[k].kind)])
        engines == Loaded("browser_engine").value
        engine_parser == CompiledParser_build(
            [i \in 1..Len(engines) |->
                [pattern |-> engines[i].regex, data |-> [name |-> engines[i].name]]])
        vendor_fragment_parser ==
            CompiledParser_build(VendorFragmentItems(Loaded("vendorfragments").value, 1))
        flat_result ==
            ChainOutcomes(<< Stage("bots", bot_parser),
                             Stage("oss", os_parser),
                             UNION {Stage(ClientSpecs[k].file, client_parsers[k]) :
                                        k \in 1..Len(ClientSpecs)},
                             Stage("browser_engine", engine_parser),
                             Stage("vendorfragments", vendor_fragment_parser) >>, 1)
        device_parsers ==
            Vec([k \in 1..Len(DeviceSpecs) |-> BuildDeviceParser(dir, DeviceSpecs[k])])
        device_parsers_result ==
            GroupOutcomes({device_parsers[k].error : k \in 1..Len(device_parsers)})
        AfterJoin(flat, device) ==
            IF "panic" \in {flat, device} THEN "panic"
            ELSE IF flat # "" THEN flat
            ELSE IF device # "" THEN device
            ELSE IF ~Loaded("app_hints").ok THEN Loaded("app_hints").error
            ELSE Loaded("browser_hints").error
        outcomes == {AfterJoin(f, d) : f \in flat_result, d \in device_parsers_result}
        d == [bot_parser |-> bot_parser,
              os_parser |-> os_parser,
              browser_parser |-> client_parsers[1],
              feed_reader_parser |-> client_parsers[2],
              mobile_app_parser |-> client_parsers[3],
              library_parser |-> client_parsers[4],
              media_player_parser |-> client_parsers[5],
              pim_parser |-> client_parsers[6],
              engine_parser |-> engine_parser,
              vendor_fragment_parser |-> vendor_fragment_parser,
              device_parsers |-> device_parsers,
              heuristic_regexes |-> HeuristicRegexes_compile,
              app_hints |-> Loaded("app_hints").value,
              browser_hints |-> Loaded("browser_hints").value]
    IN  [ok |-> outcomes = {""}, outcomes |-> outcomes,
         detector |-> IF outcomes = {""} THEN Some(d) ELSE None]

\* The detector every query runs on.
Detector == Unwrap(from_dir(RegexesDir).detector)

----------------------------------------------------------------------------
(* device_detector.rs: one query, step by step.  The locals of             *)
(* parse_with_hints are the fields of a query record q.                    *)

\* helpers.rs capture_or_empty
capture_or_empty(captures, group) ==
    IF IsSome(CapGet(captures, group)) THEN Unwrap(CapGet(captures, group))
    ELSE EmptyStr

\* u8::to_ascii_lowercase on the words of names.
ToAsciiLowercaseWord(w) ==
    CASE w = "MyApp" -> "myapp"
      [] w = "Chrome" -> "chrome"
      [] w = "WebKit" -> "webkit"
      [] w = "Blink" -> "blink"
      [] OTHER -> w

\* str::eq_ignore_ascii_case
eq_ignore_ascii_case(a, b) ==
    /\ Len(a) = Len(b)
    /\ \A i \in 1..Len(a) : ToAsciiLowercaseWord(a[i]) = ToAsciiLowercaseWord(b[i])

\* The version of a flat-list match: the template expanded, or group 1.
VersionOf(m) ==
    IF IsSome(m.data.version_template)
    THEN substitute(Unwrap(m.data.version_template), m.captures)
    ELSE capture_or_empty(m.captures, 1)

\* The Detection of step 1 (ua and hints play no part in it).
BotDetectionWithOs(d, ua, m) ==
    [bot |-> Some([name |-> substitute(m.data.name, m.captures),
                   category |-> m.data.category,
                   url |-> m.data.url,
                   producer |-> m.data.producer]),
     os |-> IF IsSome(CompiledParser_match_first(d.os_parser, ua))
            THEN Some([name |-> Unwrap(CompiledParser_match_first(d.os_parser, ua)).data.name,
                       version |-> EmptyStr])
            ELSE None,
     client |-> None,
     device |-> None]

BotDetection(d, ua, m) ==
    [bot |-> Some([name |-> substitute(m.data.name, m.captures),
                   category |-> m.data.category,
                   url |-> m.data.url,
                   producer |-> m.data.producer]),
     os |-> None,
     client |-> None,
     device |-> None]

\* 1. Bot check
BotCheck(d, q) ==
    LET m == CompiledParser_match_first(d.bot_parser, q.ua)
    IN  IF IsSome(m)
        THEN [q EXCEPT !.pc = "done", !.result = Some(BotDetection(d, q.ua, Unwrap(m)))]
        ELSE [q EXCEPT !.pc = "os"]

\* 2. OS detection
OsDetection(d, q) ==
    LET m == CompiledParser_match_first(d.os_parser, q.ua)
    IN  [q EXCEPT !.pc = "client",
                  !.os = IF IsSome(m)
                         THEN Some([name |-> substitute(Unwrap(m).data.name,
                                                        Unwrap(m).captures),
                                    version |-> VersionOf(Unwrap(m))])
                         ELSE None]

\* Variant of the threshold loop: the first threshold reached decides.
RECURSIVE EngineNameFirstReached(_, _, _, _)
EngineNameFirstReached(versions, k, browser_version, engine_name) ==
    IF k > Len(versions) THEN engine_name
    ELSE IF version_ge(browser_version, versions[k].threshold) THEN versions[k].name
    ELSE EngineNameFirstReached(versions, k + 1, browser_version, engine_name)

\* The loop of resolve_engine over the (threshold, name) entries in their
\* order: engine_name after the entries from position k on.
RECURSIVE EngineNameLoop(_, _, _, _)
EngineNameLoop(versions, k, browser_version, engine_name) ==
    IF k > Len(versions) THEN engine_name
    ELSE EngineNameLoop(versions, k + 1, browser_version,
                        IF version_ge(browser_version, versions[k].threshold)
                        THEN versions[k].name ELSE engine_name)

\* The local engine_name of resolve_engine when a default engine is set.
ChosenEngineName(client_data, browser_version) ==
    IF browser_version # EmptyStr /\ IsSome(client_data.engine_versions)
    THEN EngineNameLoop(Unwrap(client_data.engine_versions), 1, browser_version,
                        Unwrap(client_data.engine_default))
    ELSE Unwrap(client_data.engine_default)

\* Variant: any hit of the engine matcher is taken, whatever its name.
ResolveEngineAnyHit(d, ua, client_data, browser_version) ==
    LET m == CompiledParser_match_first(d.engine_parser, ua)
    IN  IF IsSome(m)
        THEN <<Unwrap(m).data.name, capture_or_empty(Unwrap(m).captures, 1)>>
        ELSE IF IsSome(client_data.engine_default)
        THEN <<ChosenEngineName(client_data, browser_version), EmptyStr>>
        ELSE <<EmptyStr, EmptyStr>>

\* Variant: an empty engine name chosen from a default is returned as it is.
ResolveEngineEmptyChosen(d, ua, client_data, browser_version) ==
    LET engine_name == ChosenEngineName(client_data, browser_version)
        m == CompiledParser_match_first(d.engine_parser, ua)
        direct == IF IsSome(m)
                  THEN <<Unwrap(m).data.name, capture_or_empty(Unwrap(m).captures, 1)>>
                  ELSE <<EmptyStr, EmptyStr>>
    IN  IF IsSome(client_data.engine_default)
        THEN IF IsSome(m) /\ eq_ignore_ascii_case(Unwrap(m).data.name, engine_name)
             THEN direct
             ELSE <<engine_name, EmptyStr>>
        ELSE direct

\* resolve_engine: (engine, engine_version)
resolve_engine(d, ua, client_data, browser_version) ==
    LET engine_name == ChosenEngineName(client_data, browser_version)
        m == CompiledParser_match_first(d.engine_parser, ua)
        direct == IF IsSome(m)
                  THEN <<Unwrap(m).data.name, capture_or_empty(Unwrap(m).captures, 1)>>
                  ELSE <<EmptyStr, EmptyStr>>
    IN  IF IsSome(client_data.engine_default) /\ engine_name # EmptyStr
        THEN IF IsSome(m) /\ eq_ignore_ascii_case(Unwrap(m).data.name, engine_name)
             THEN direct
             ELSE <<engine_name, EmptyStr>>
        ELSE direct

\* Variant: the mobile apps are tried before the browsers.
ClientParsersAppsFirst(d) ==
    <<d.mobile_app_parser, d.browser_parser, d.feed_reader_parser,
      d.library_parser, d.media_player_parser, d.pim_parser>>

\* The client parsers of detect_client, in order.
ClientParsers(d) ==
    <<d.browser_parser, d.feed_reader_parser, d.mobile_app_parser,
      d.library_parser, d.media_player_parser, d.pim_parser>>

RECURSIVE detect_client_from(_, _, _)
detect_client_from(d, ua, k) ==
    IF k > Len(ClientParsers(d)) THEN None
    ELSE LET mo == CompiledParser_match_first(ClientParsers(d)[k], ua)
         IN  IF IsSome(mo)
             THEN LET m == Unwrap(mo)
                      version == VersionOf(m)
                      eng == resolve_engine(d, ua, m.data, version)
                  IN  Some([kind |-> m.data.kind,
                            name |-> substitute(m.data.name, m.captures),
                            version |-> version,
                            engine |-> eng[1],
                            engine_version |-> eng[2]])
             ELSE detect_client_from(d, ua, k + 1)

\* detect_client
detect_client(d, ua) == detect_client_from(d, ua, 1)

\* 3. Client detection
ClientDetection(d, q) ==
    [q EXCEPT !.pc = "xrw", !.client = detect_client(d, q.ua)]

\* Variant: browser_hints is consulted before app_hints.
XrwOverrideBrowserFirst(d, q) ==
    LET xrw == IF IsSome(q.hints) THEN Unwrap(q.hints).x_requested_with ELSE None
        keep_version(name) ==
            IsSome(q.client) /\ eq_ignore_ascii_case(Unwrap(q.client).name, name)
        app_name == d.app_hints[Unwrap(xrw)]
        browser_name == d.browser_hints[Unwrap(xrw)]
        client ==
            IF ~IsSome(xrw) THEN q.client
            ELSE IF Unwrap(xrw) \in DOMAIN d.browser_hints
            THEN Some([kind |-> "browser",
                       name |-> browser_name,
                       version |-> IF keep_version(browser_name)
                                   THEN Unwrap(q.client).version ELSE EmptyStr,
                       engine |-> IF keep_version(browser_name)
                                  THEN Unwrap(q.client).engine ELSE EmptyStr,
                       engine_version |-> IF keep_version(browser_name)
                                          THEN Unwrap(q.client).engine_version
                                          ELSE EmptyStr])
            ELSE IF Unwrap(xrw) \in DOMAIN d.app_hints
            THEN Some([kind |-> "mobile app",
                       name |-> app_name,
                       version |-> IF keep_version(app_name)
                                   THEN Unwrap(q.client).version ELSE EmptyStr,
                       engine |-> EmptyStr,
                       engine_version |-> EmptyStr])
            ELSE q.client
    IN  [q EXCEPT !.pc = "device", !.client = client]

\* Variant: a browser hint keeps the engine of the detected client whatever
\* its name is.
XrwOverrideKeepsEngine(d, q) ==
    LET xrw == IF IsSome(q.hints) THEN Unwrap(q.hints).x_requested_with ELSE None
        keep_version(name) ==
            IsSome(q.client) /\ eq_ignore_ascii_case(Unwrap(q.client).name, name)
        app_name == d.app_hints[Unwrap(xrw)]
        browser_name == d.browser_hints[Unwrap(xrw)]
        client ==
            IF ~IsSome(xrw) THEN q.client
            ELSE IF Unwrap(xrw) \in DOMAIN d.app_hints
            THEN Some([kind |-> "mobile app",
                       name |-> app_name,
                       version |-> IF keep_version(app_name)
                                   THEN Unwrap(q.client).version ELSE EmptyStr,
                       engine |-> EmptyStr,
                       engine_version |-> EmptyStr])
            ELSE IF Unwrap(xrw) \in DOMAIN d.browser_hints
            THEN Some([kind |-> "browser",
                       name |-> browser_name,
                       version |-> IF keep_version(browser_name)
                                   THEN Unwrap(q.client).version ELSE EmptyStr,
                       engine |-> IF IsSome(q.client)
                                  THEN Unwrap(q.client).engine ELSE EmptyStr,
                       engine_version |-> IF IsSome(q.client)
                                          THEN Unwrap(q.client).engine_version
                                          ELSE EmptyStr])
            ELSE q.client
    IN  [q EXCEPT !.pc = "device", !.client = client]

\* 4. X-Requested-With client override from hints.
XrwOverride(d, q) ==
    LET xrw == IF IsSome(q.hints) THEN Unwrap(q.hints).x_requested_with ELSE None
        keep_version(name) ==
            IsSome(q.client) /\ eq_ignore_ascii_case(Unwrap(q.client).name, name)
        app_name == d.app_hints[Unwrap(xrw)]
        browser_name == d.browser_hints[Unwrap(xrw)]
        client ==
            IF ~IsSome(xrw) THEN q.client
            ELSE IF Unwrap(xrw) \in DOMAIN d.app_hints
            THEN Some([kind |-> "mobile app",
                       name |-> app_name,
                       version |-> IF keep_version(app_name)
                                   THEN Unwrap(q.client).version ELSE EmptyStr,
                       engine |-> EmptyStr,
                       engine_version |-> EmptyStr])
            ELSE IF Unwrap(xrw) \in DOMAIN d.browser_hints
            THEN Some([kind |-> "browser",
                       name |-> browser_name,
                       version |-> IF keep_version(browser_name)
                                   THEN Unwrap(q.client).version ELSE EmptyStr,
                       engine |-> IF keep_version(browser_name)
                                  THEN Unwrap(q.client).engine ELSE EmptyStr,
                       engine_version |-> IF keep_version(browser_name)
                                          THEN Unwrap(q.client).engine_version
                                          ELSE EmptyStr])
            ELSE q.client
    IN  [q EXCEPT !.pc = "device", !.client = client]

\* Variant: a matched model rule without template takes the brand's template.
DeviceOfMatchBrandTemplate(m, default_type) ==
    LET brand_model == IF IsSome(m.brand_data.model_template)
                       THEN substitute(Unwrap(m.brand_data.model_template),
                                       m.brand_captures)
                       ELSE EmptyStr
    IN  IF IsSome(m.model_match)
        THEN LET mm == Unwrap(m.model_match)
             IN  [kind |-> IF IsSome(mm.data.device_type) THEN mm.data.device_type
                           ELSE IF IsSome(m.brand_data.device_type)
                           THEN m.brand_data.device_type
                           ELSE Some(default_type),
                  brand |-> IF IsSome(mm.data.brand) THEN Unwrap(mm.data.brand)
                            ELSE m.brand_data.brand,
                  model |-> IF IsSome(mm.data.model_template)
                            THEN substitute(Unwrap(mm.data.model_template), mm.captures)
                            ELSE brand_model]
        ELSE [kind |-> IF IsSome(m.brand_data.device_type) THEN m.brand_data.device_type
                       ELSE Some(default_type),
              brand |-> m.brand_data.brand,
              model |-> brand_model]

\* The Device of a brand match, with or without a model match.
DeviceOfMatch(m, default_type) ==
    IF IsSome(m.model_match)
    THEN LET mm == Unwrap(m.model_match)
         IN  [kind |-> IF IsSome(mm.data.device_type) THEN mm.data.device_type
                       ELSE IF IsSome(m.brand_data.device_type)
                       THEN m.brand_data.device_type
                       ELSE Some(default_type),
              brand |-> IF IsSome(mm.data.brand) THEN Unwrap(mm.data.brand)
                        ELSE m.brand_data.brand,
              model |-> IF IsSome(mm.data.model_template)
                        THEN substitute(Unwrap(mm.data.model_template), mm.captures)
                        ELSE EmptyStr]
    ELSE [kind |-> IF IsSome(m.brand_data.device_type) THEN m.brand_data.device_type
                   ELSE Some(default_type),
          brand |-> m.brand_data.brand,
          model |-> IF IsSome(m.brand_data.model_template)
                    THEN substitute(Unwrap(m.brand_data.model_template), m.brand_captures)
                    ELSE EmptyStr]

\* Variant: a file whose pre-filter matched without a brand never claims the
\* type; the next file is consulted.
RECURSIVE DetectDeviceNeverClaiming(_, _, _)
DetectDeviceNeverClaiming(d, ua, k) ==
    IF k > Len(d.device_parsers) THEN None
    ELSE LET p == d.device_parsers[k]
             m == DeviceBrandParser_match_first(p.parser, ua)
         IN  IF DevicePrefilter_matches(p.prefilter, ua) /\ IsSome(m)
             THEN Some(DeviceOfMatch(Unwrap(m), p.default_type))
             ELSE DetectDeviceNeverClaiming(d, ua, k + 1)

\* Variant: the files after a file that yields a result are consulted too,
\* and the last result stands.
RECURSIVE DetectDeviceLastFile(_, _, _)
DetectDeviceLastFile(d, ua, k) ==
    IF k > Len(d.device_parsers) THEN None
    ELSE LET p == d.device_parsers[k]
             m == DeviceBrandParser_match_first(p.parser, ua)
             later == DetectDeviceLastFile(d, ua, k + 1)
         IN  IF IsSome(later) \/ ~DevicePrefilter_matches(p.prefilter, ua) THEN later
             ELSE IF IsSome(m)
             THEN Some(DeviceOfMatch(Unwrap(m), p.default_type))
             ELSE IF p.claims_type
             THEN Some([kind |-> Some(p.default_type), brand |-> EmptyStr,
                        model |-> EmptyStr])
             ELSE None

RECURSIVE detect_device_from(_, _, _)
detect_device_from(d, ua, k) ==
    IF k > Len(d.device_parsers) THEN None
    ELSE LET p == d.device_parsers[k]
             m == DeviceBrandParser_match_first(p.parser, ua)
         IN  IF ~DevicePrefilter_matches(p.prefilter, ua)
             THEN detect_device_from(d, ua, k + 1)
             ELSE IF IsSome(m)
             THEN Some(DeviceOfMatch(Unwrap(m), p.default_type))
             ELSE IF p.claims_type
             THEN Some([kind |-> Some(p.default_type), brand |-> EmptyStr,
                        model |-> EmptyStr])
             ELSE detect_device_from(d, ua, k + 1)

\* detect_device
detect_device(d, ua) == detect_device_from(d, ua, 1)

\* 5. Device detection, decomposed into (device_type, brand, model).
DeviceDetection(d, q) ==
    LET device == detect_device(d, q.ua)
    IN  IF IsSome(device)
        THEN [q EXCEPT !.pc = "scrub",
                       !.device_type = Unwrap(device).kind,
                       !.brand = Unwrap(device).brand,
                       !.model = Unwrap(device).model]
        ELSE [q EXCEPT !.pc = "scrub",
                       !.device_type = None, !.brand = EmptyStr, !.model = EmptyStr]

\* Variant: the "Unknown" brand is kept.
ScrubKeepsUnknown(d, q) == [q EXCEPT !.pc = "vendor"]

\* The "Unknown" brand is treated as empty.
ScrubUnknownBrand(d, q) ==
    [q EXCEPT !.pc = "vendor",
              !.brand = IF q.brand = Str("Unknown") THEN EmptyStr ELSE q.brand]

\* 6. Vendor fragment fallback
VendorFragment(d, q) ==
    LET m == CompiledParser_match_first(d.vendor_fragment_parser, q.ua)
    IN  [q EXCEPT !.pc = "apple",
                  !.brand = IF q.brand = EmptyStr /\ IsSome(m)
                            THEN Unwrap(m).data.brand ELSE q.brand]

\* The names derived from os and client before the heuristics.
OsName(q) == IF IsSome(q.os) THEN Unwrap(q.os).name ELSE EmptyStr

OsVersion(q) == IF IsSome(q.os) THEN Unwrap(q.os).version ELSE EmptyStr

IsAppleOs(q) ==
    OsName(q) \in {Str("iPadOS"), Str("tvOS"), Str("watchOS"), Str("iOS"), Str("Mac")}

IsAndroidFamily(q) == IsSome(q.os) /\ is_android_os(Unwrap(q.os).name)

ClientName(q) == IF IsSome(q.client) THEN Unwrap(q.client).name ELSE EmptyStr

TvClientNames ==
    {Str("Kylo"), Str("Espial TV Browser"), Str("LUJO TV Browser"),
     Str("LogicUI TV Browser"), Str("Open TV Browser"), Str("Seraphic Sraf"),
     Str("Opera Devices"), Str("Crow Browser"), Str("Vewd Browser"), Str("TiviMate"),
     Str("Quick Search TV"), Str("QJY TV Browser"), Str("TV Bro"), Str("Redline")}

\* Variant: a brand "Apple" without an Apple system loses the brand only.
AppleBrandClearsBrandOnly(d, q) ==
    [q EXCEPT !.pc = "heuristics",
              !.brand = IF IsAppleOs(q) /\ q.brand = EmptyStr THEN Str("Apple")
                        ELSE IF ~IsAppleOs(q) /\ q.brand = Str("Apple") THEN EmptyStr
                        ELSE q.brand]

\* Variant: an empty brand stays empty on an Apple system.
AppleBrandOnlyClears(d, q) ==
    IF q.brand = Str("Apple") /\ ~IsAppleOs(q)
    THEN [q EXCEPT !.pc = "heuristics", !.device_type = None, !.brand = EmptyStr,
                   !.model = EmptyStr]
    ELSE [q EXCEPT !.pc = "heuristics"]

\* 7. Apple brand heuristics
AppleBrand(d, q) ==
    LET q1 == IF q.brand = Str("Apple") /\ ~IsAppleOs(q)
              THEN [q EXCEPT !.device_type = None, !.brand = EmptyStr,
                             !.model = EmptyStr]
              ELSE q
    IN  [q1 EXCEPT !.pc = "heuristics",
                   !.brand = IF q1.brand = EmptyStr /\ IsAppleOs(q) THEN Str("Apple")
                             ELSE q1.brand]

\* Variant: unwrap_or(true).
IsMatchOrTrue(re, ua) == fancy_is_match(re, ua) # "false"

\* regex.is_match(ua).unwrap_or(false)
IsMatchOrFalse(re, ua) == fancy_is_match(re, ua) = "true"

\* The h-th block of the device-type heuristics, in source order.
HeuristicRule(h, d, q) ==
    LET hr == d.heuristic_regexes
        ua == q.ua
        unset == ~IsSome(q.device_type)
        Kind(k) == [q EXCEPT !.device_type = Some(k)]
    IN  CASE h = 1 ->
               IF unset /\ IsMatchOrFalse(hr.vr, ua) THEN Kind("wearable") ELSE q
          [] h = 2 ->
               IF unset /\ IsAndroidFamily(q) /\ IsMatchOrFalse(hr.chrome_android, ua)
               THEN IF IsMatchOrFalse(hr.mobile_elibom, ua) THEN Kind("smartphone")
                    ELSE Kind("tablet")
               ELSE q
          [] h = 3 ->
               IF q.device_type = Some("smartphone") /\ IsMatchOrFalse(hr.pad_apad, ua)
               THEN Kind("tablet") ELSE q
          [] h = 4 ->
               IF unset /\ (IsMatchOrFalse(hr.android_tablet, ua)
                            \/ IsMatchOrFalse(hr.opera_tablet, ua))
               THEN Kind("tablet") ELSE q
          [] h = 5 ->
               IF unset /\ IsMatchOrFalse(hr.android_mobile, ua)
               THEN Kind("smartphone") ELSE q
          [] h = 6 ->
               IF unset /\ OsName(q) = Str("Android") /\ OsVersion(q) # EmptyStr
               THEN IF version_lt(OsVersion(q), <<"2", ".", "0">>) THEN Kind("smartphone")
                    ELSE IF /\ version_ge(OsVersion(q), <<"3", ".", "0">>)
                            /\ version_lt(OsVersion(q), <<"4", ".", "0">>)
                    THEN Kind("tablet")
                    ELSE q
               ELSE q
          [] h = 7 ->
               IF q.device_type = Some("feature phone") /\ IsAndroidFamily(q)
               THEN Kind("smartphone") ELSE q
          [] h = 8 ->
               IF OsName(q) = Str("Java ME") /\ unset THEN Kind("feature phone") ELSE q
          [] h = 9 ->
               IF OsName(q) = Str("KaiOS") THEN Kind("feature phone") ELSE q
          [] h = 10 ->
               IF /\ unset
                  /\ \/ OsName(q) = Str("Windows RT")
                     \/ /\ OsName(q) = Str("Windows")
                        /\ OsVersion(q) # EmptyStr
                        /\ version_ge(OsVersion(q), <<"8">>)
                  /\ IsMatchOrFalse(hr.touch, ua)
               THEN Kind("tablet") ELSE q
          [] h = 11 ->
               IF unset /\ IsMatchOrFalse(hr.puffin_desktop, ua) THEN Kind("desktop") ELSE q
          [] h = 12 ->
               IF unset /\ IsMatchOrFalse(hr.puffin_smartphone, ua)
               THEN Kind("smartphone") ELSE q
          [] h = 13 ->
               IF unset /\ IsMatchOrFalse(hr.puffin_tablet, ua) THEN Kind("tablet") ELSE q
          [] h = 14 ->
               IF IsMatchOrFalse(hr.opera_tv, ua) THEN Kind("tv") ELSE q
          [] h = 15 ->
               IF OsName(q) = Str("Coolita OS")
               THEN [q EXCEPT !.device_type = Some("tv"), !.brand = Str("coocaa")]
               ELSE q
          [] h = 16 ->
               IF /\ q.device_type \notin {Some("tv"), Some("peripheral")}
                  /\ IsMatchOrFalse(hr.android_tv, ua)
               THEN Kind("tv") ELSE q
          [] h = 17 ->
               IF unset /\ IsMatchOrFalse(hr.smart_tv_tizen, ua) THEN Kind("tv") ELSE q
          [] h = 18 ->
               IF ClientName(q) \in TvClientNames THEN Kind("tv") ELSE q
          [] h = 19 ->
               IF unset /\ IsMatchOrFalse(hr.tv_fragment, ua) THEN Kind("tv") ELSE q
          [] h = 20 ->
               IF /\ q.device_type # Some("desktop")
                  /\ PatMatches(DesktopSubstring, ua)
                  /\ IsMatchOrFalse(hr.desktop_fragment, ua)
               THEN Kind("desktop") ELSE q
          [] h = 21 ->
               IF unset /\ IsSome(q.os) /\ is_desktop_os(Unwrap(q.os).name)
               THEN Kind("desktop") ELSE q

\* Variant: the Desktop fragment block runs before the others.
RECURSIVE HeuristicsDesktopFirst(_, _, _)
HeuristicsDesktopFirst(h, d, q) ==
    IF h > 21 THEN q
    ELSE LET block == IF h = 1 THEN 20 ELSE IF h <= 20 THEN h - 1 ELSE 21
         IN  HeuristicsDesktopFirst(h + 1, d, HeuristicRule(block, d, q))

\* Variant: the blocks run from the last to the first.
RECURSIVE HeuristicsFromLast(_, _, _)
HeuristicsFromLast(h, d, q) ==
    IF h > 21 THEN q
    ELSE HeuristicsFromLast(h + 1, d, HeuristicRule(22 - h, d, q))

RECURSIVE HeuristicsFrom(_, _, _)
HeuristicsFrom(h, d, q) ==
    IF h > 21 THEN q
    ELSE HeuristicsFrom(h + 1, d, HeuristicRule(h, d, q))

\* The device-type heuristics, all blocks in order.
DeviceTypeHeuristics(d, q) ==
    [HeuristicsFrom(1, d, q) EXCEPT !.pc = "hint_model"]

\* Variant: a hint model that is not empty replaces the model of the rules.
HintModelOverrides(d, q) ==
    LET hint_model == IF IsSome(q.hints) THEN Unwrap(q.hints).model ELSE None
    IN  [q EXCEPT !.pc = "hint_mobile",
                  !.model = IF IsSome(hint_model) /\ Unwrap(hint_model) # EmptyStr
                            THEN Unwrap(hint_model) ELSE q.model]

\* Client hints: device model fallback
HintModel(d, q) ==
    LET hint_model == IF IsSome(q.hints) THEN Unwrap(q.hints).model ELSE None
    IN  [q EXCEPT !.pc = "hint_mobile",
                  !.model = IF /\ q.model = EmptyStr
                               /\ IsSome(hint_model)
                               /\ Unwrap(hint_model) # EmptyStr
                            THEN Unwrap(hint_model) ELSE q.model]

\* Variant: the mobile flag sets the kind whatever it was.
HintMobileOverrides(d, q) ==
    LET mobile == IF IsSome(q.hints) THEN Unwrap(q.hints).mobile ELSE None
    IN  [q EXCEPT !.pc = "build",
                  !.device_type = IF mobile = Some(TRUE)
                                  THEN Some("smartphone") ELSE q.device_type]

\* Client hints: mobile flag
HintMobile(d, q) ==
    LET mobile == IF IsSome(q.hints) THEN Unwrap(q.hints).mobile ELSE None
    IN  [q EXCEPT !.pc = "build",
                  !.device_type = IF ~IsSome(q.device_type) /\ mobile = Some(TRUE)
                                  THEN Some("smartphone") ELSE q.device_type]

\* Build the final device and the Detection.
BuildDetectionOnModelToo(d, q) ==
    [q EXCEPT !.pc = "done",
              !.result = Some([bot |-> None, os |-> q.os, client |-> q.client,
                               device |-> IF \/ IsSome(q.device_type)
                                             \/ q.brand # EmptyStr
                                             \/ q.model # EmptyStr
                                          THEN Some([kind |-> q.device_type,
                                                     brand |-> q.brand,
                                                     model |-> q.model])
                                          ELSE None])]

BuildDetection(d, q) ==
    [q EXCEPT !.pc = "done",
              !.result = Some([bot |-> None, os |-> q.os, client |-> q.client,
                               device |-> IF IsSome(q.device_type) \/ q.brand # EmptyStr
                                          THEN Some([kind |-> q.device_type,
                                                     brand |-> q.brand,
                                                     model |-> q.model])
                                          ELSE None])]

\* The locals of a call at its entry.
Start(ua, hints) ==
    [pc |-> "bot", ua |-> ua, hints |-> hints, os |-> None, client |-> None,
     device_type |-> None, brand |-> EmptyStr, model |-> EmptyStr, result |-> None]

\* The next step of a call.
Step(d, q) ==
    CASE q.pc = "bot" -> BotCheck(d, q)
      [] q.pc = "os" -> OsDetection(d, q)
      [] q.pc = "client" -> ClientDetection(d, q)
      [] q.pc = "xrw" -> XrwOverride(d, q)
      [] q.pc = "device" -> DeviceDetection(d, q)
      [] q.pc = "scrub" -> ScrubUnknownBrand(d, q)
      [] q.pc = "vendor" -> VendorFragment(d, q)
      [] q.pc = "apple" -> AppleBrand(d, q)
      [] q.pc = "heuristics" -> DeviceTypeHeuristics(d, q)
      [] q.pc = "hint_model" -> HintModel(d, q)
      [] q.pc = "hint_mobile" -> HintMobile(d, q)
      [] q.pc = "build" -> BuildDetection(d, q)

RECURSIVE RunToEnd(_, _)
RunToEnd(d, q) == IF q.pc = "done" THEN q ELSE RunToEnd(d, Step(d, q))

\* DeviceDetector::parse_with_hints as one function of its arguments.
parse_with_hints(d, ua, hints) == Unwrap(RunToEnd(d, Start(ua, hints)).result)

\* DeviceDetector::parse
parse(d, ua) == parse_with_hints(d, ua, None)

\* Two calls at most are in progress on the one detector.
Slots == {"q1", "q2"}

NoCall == [Start({}, None) EXCEPT !.pc = "idle"]

NoCalls == [s \in Slots |-> NoCall]

\* The locals a call works on are its own.
LocalsSharedBrand(all, s) ==
    [all[s] EXCEPT !.brand = all[CHOOSE o \in Slots : o # s].brand]

Locals(all, s) == all[s]

----------------------------------------------------------------------------
(* Drawn inputs of parse_with_hints: a user agent is the set of its        *)
(* fragments; the hint fields are drawn along with the fragments.          *)

UaFragments ==
    {"bingbot", "Googlebot", "HEAVY",
     "Android 1.5", "Android 3.1", "Android 10", "Android; Mobile;", "Android TV",
     "iPhone OS", "Mac OS X", "Windows RT", "Windows NT 10.0", "Windows NT 6.1",
     "KAIOS", "J2ME", "Coolita",
     "Chrome/90", "Kylo/", "Akregator", "myapp/2", "curl", "VLC", "Outlook",
     "AppleWebKit/537", "MDDR;", "MDDR",
     "Shell", "Telefunken Shell", "HbbTV/", "HbbTV/Vestel",
     "PlayStation", "xPlayStation", "Xbox", "Tesla/", "Coolpix", "iPod",
     "FBMD/", "FBMD/Aspire", "fbmd/", "SM-G973F", "SM-X", "iPhone", "iPad", "WebTV",
     "Mobile VR;", "Mobile", "Pad/APad", "Tablet;", "Opera Tablet", "Touch",
     "Puffin/7.0LD", "Puffin/7.0AP", "Puffin/7.0AT", "Opera TV Store", "SmartTV",
     "(TV;", "Desktop;", "desktop;", "Desktop"}

XrwFeatures == {"xrw=com.myapp", "xrw=com.android.chrome", "xrw=org.other"}
ModelFeatures == {"model=", "model=HintModel"}
MobileFeatures == {"mobile=true", "mobile=false"}
HintFeatures == {"hints"} \cup XrwFeatures \cup ModelFeatures \cup MobileFeatures

RECURSIVE SubsetsUpTo(_, _)
SubsetsUpTo(S, n) ==
    IF n = 0 THEN {{}}
    ELSE LET P == SubsetsUpTo(S, n - 1)
         IN  P \cup {x \cup {y} : x \in P, y \in S}

OneValueEach(F) ==
    /\ Cardinality(F \cap XrwFeatures) <= 1
    /\ Cardinality(F \cap ModelFeatures) <= 1
    /\ Cardinality(F \cap MobileFeatures) <= 1

\* Option<&ClientHints> of a feature set.
HintsOf(F) ==
    IF F \cap HintFeatures = {} THEN None
    ELSE Some([x_requested_with |->
                   IF "xrw=com.myapp" \in F THEN Some("com.myapp")
                   ELSE IF "xrw=com.android.chrome" \in F THEN Some("com.android.chrome")
                   ELSE IF "xrw=org.other" \in F THEN Some("org.other")
                   ELSE None,
               model |->
                   IF "model=" \in F THEN Some(EmptyStr)
                   ELSE IF "model=HintModel" \in F THEN Some(Str("HintModel"))
                   ELSE None,
               mobile |->
                   IF "mobile=true" \in F THEN Some(TRUE)
                   ELSE IF "mobile=false" \in F THEN Some(FALSE)
                   ELSE None])

InputsOver(features, n) ==
    {[ua |-> F \cap UaFragments, hints |-> HintsOf(F)] :
        F \in {G \in SubsetsUpTo(features, n) : OneValueEach(G)}}

Inputs == InputsOver(UaFragments \cup HintFeatures, MaxFeatures)

\* The inputs of the interleaved calls.
ConcFeatures ==
    {"Googlebot", "Android 10", "iPhone", "iPhone OS", "SM-G973F", "HEAVY",
     "model=HintModel", "mobile=true"}

ConcInputs == InputsOver(ConcFeatures, MaxConcFeatures)

----------------------------------------------------------------------------
(* Drawn inputs of the pure functions *)

TplAlphabet == {"a", "$", "0", "1", "2", " ", "."}

Templates == SeqsUpTo(TplAlphabet, MaxTplLen)

\* Group 0 always takes part in a match; groups 1 and 2 may be missing from
\* the regex or may not have participated.
CaptureChoices ==
    { <<Some(<<"m">>)>>,
      <<Some(<<"m">>), None>>,
      <<Some(<<"m">>), Some(<<"b">>)>>,
      <<Some(<<"m">>), Some(<<"b", ".">>)>>,
      <<Some(<<"m">>), None, Some(<<"c", " ">>)>> }

VerAlphabet == {"0", "1", ".", "x"}

VersionStrings == SeqsUpTo(VerAlphabet, MaxVerLen)

MatchTokens == {"a", "b", "h"}

RuleShapes ==
    { Pat("a", "std", {}, <<Some(<<"a">>)>>),
      Pat("b", "std", {}, <<Some(<<"b">>)>>),
      Pat("a", "fancy", {}, <<Some(<<"a">>)>>),
      Pat("a", "fancy", {"h"}, <<Some(<<"a">>)>>),
      Pat("b", "fancy", {"h"}, <<Some(<<"b">>)>>) }

\* A drawn table: the data of rule i is its index i.
RuleTables ==
    { [i \in 1..Len(ps) |-> [pattern |-> ps[i], data |-> i]] :
        ps \in SeqsUpTo(RuleShapes, MaxRules) }

BrandTokens == {"a", "b", "c", "h"}

GateShapes ==
    { Pat("a", "std", {}, <<Some(<<"a">>)>>),
      Pat("a", "fancy", {}, <<Some(<<"a">>)>>),
      Pat("b", "fancy", {"h"}, <<Some(<<"b">>)>>) }

ModelA == Pat("a", "std", {}, <<Some(<<"a">>)>>)

ModelC == Pat("c", "fancy", {"h"}, <<Some(<<"c">>)>>)

\* The model lists of a drawn brand.
ModelLists ==
    {<<>>, <<ModelA>>, <<ModelC>>, <<ModelA, ModelC>>, <<ModelC, ModelA>>,
     <<ModelA, ModelA>>}

\* A drawn device file: brand i has data i; its model j has data <<i, j>>.
DeviceFiles ==
    { [i \in 1..Len(bs) |->
          [pattern |-> bs[i].gate,
           data |-> i,
           models |-> [j \in 1..Len(bs[i].models) |->
                          [regex |-> full_pattern(bs[i].models[j]),
                           data |-> <<i, j>>]]]] :
        bs \in SeqsUpTo([gate : GateShapes,
                         models : ModelLists], MaxBrands) }

GateLists == SeqsUpTo(GateShapes, MaxBrands)

\* The items build_device_brand_parser hands to DeviceBrandParser::build: the
\* gate pattern wrapped by full_pattern, the brand data, the compiled models.
BrandItems(file) ==
    [i \in 1..Len(file) |-> [pattern |-> full_pattern(file[i].pattern),
                             data |-> file[i].data,
                             models |-> file[i].models]]

----------------------------------------------------------------------------
(* Specifications of the pure functions: Init draws the inputs, the action  *)
(* applies the function.                                                   *)

InitSubst ==
    /\ args \in {[fn |-> "substitute", template |-> t, captures |-> c] :
                    t \in Templates, c \in CaptureChoices}
    /\ ret = None
    /\ qs = NoCalls

ApplySubstitute ==
    /\ args.fn = "substitute"
    /\ ret = None
    /\ ret' = Some(substitute(args.template, args.captures))
    /\ UNCHANGED <<args, qs>>

NextSubst == ApplySubstitute

SpecSubst == InitSubst /\ [][NextSubst]_vars

InitVersion ==
    /\ args \in {[fn |-> "version", a |-> a, b |-> b] :
                    a \in VersionStrings, b \in VersionStrings}
    /\ ret = [lt |-> None, ge |-> None]
    /\ qs = NoCalls

ApplyVersionLt ==
    /\ args.fn = "version"
    /\ ret.lt = None
    /\ ret' = [ret EXCEPT !.lt = Some(version_lt(args.a, args.b))]
    /\ UNCHANGED <<args, qs>>

ApplyVersionGe ==
    /\ args.fn = "version"
    /\ ret.ge = None
    /\ ret' = [ret EXCEPT !.ge = Some(version_ge(args.a, args.b))]
    /\ UNCHANGED <<args, qs>>

NextVersion == ApplyVersionLt \/ ApplyVersionGe

SpecVersion == InitVersion /\ [][NextVersion]_vars

InitMatch ==
    /\ args \in {[fn |-> "match_first", items |-> t,
                  parser |-> CompiledParser_build(t), ua |-> u] :
                    t \in RuleTables, u \in SUBSET MatchTokens}
    /\ ret = None
    /\ qs = NoCalls

ApplyMatchFirst ==
    /\ args.fn = "match_first"
    /\ ret = None
    /\ ret' = Some(CompiledParser_match_first(args.parser, args.ua))
    /\ UNCHANGED <<args, qs>>

NextMatch == ApplyMatchFirst

SpecMatch == InitMatch /\ [][NextMatch]_vars

InitBrand ==
    /\ args \in {[fn |-> "brand_match_first", file |-> f,
                  parser |-> DeviceBrandParser_build(BrandItems(f)), ua |-> u] :
                    f \in DeviceFiles, u \in SUBSET BrandTokens}
    /\ ret = None
    /\ qs = NoCalls

ApplyBrandMatchFirst ==
    /\ args.fn = "brand_match_first"
    /\ ret = None
    /\ ret' = Some(DeviceBrandParser_match_first(args.parser, args.ua))
    /\ UNCHANGED <<args, qs>>

NextBrand == ApplyBrandMatchFirst

SpecBrand == InitBrand /\ [][NextBrand]_vars

\* An Overall device file: its pre-filter is consulted first; the brand
\* parser is what the pre-filter guards.
InitPrefilter ==
    /\ args \in {[fn |-> "prefilter", gates |-> g,
                  prefilter |-> build_overall_prefilter(g),
                  parser |-> DeviceBrandParser_build(
                                [i \in 1..Len(g) |->
                                    [pattern |-> full_pattern(g[i]), data |-> i,
                                     models |-> <<>>]]),
                  ua |-> u] :
                    g \in GateLists, u \in SUBSET BrandTokens}
    /\ ret = [pre |-> None, brand |-> None]
    /\ qs = NoCalls

ApplyPrefilterMatches ==
    /\ args.fn = "prefilter"
    /\ ret.pre = None
    /\ ret' = [ret EXCEPT !.pre = Some(DevicePrefilter_matches(args.prefilter, args.ua))]
    /\ UNCHANGED <<args, qs>>

ApplyGuardedMatchFirst ==
    /\ args.fn = "prefilter"
    /\ ret.brand = None
    /\ ret' = [ret EXCEPT !.brand =
                  Some(DeviceBrandParser_match_first(args.parser, args.ua))]
    /\ UNCHANGED <<args, qs>>

NextPrefilter == ApplyPrefilterMatches \/ ApplyGuardedMatchFirst

SpecPrefilter == InitPrefilter /\ [][NextPrefilter]_vars

----------------------------------------------------------------------------
(* detect_device on one drawn device file *)

\* The gate of the drawn brand and the regex of its model rule; group 1 of
\* the two differs.
GateA == Pat("a", "std", {}, G1("a", Str("X")))

RuleC == Pat("c", "std", {}, G1("c", Str("Y")))

\* The device strings of the drawn entries: absent, a type under a name that
\* needs lower-casing, a string that names no type.
DeviceStrings == {None, Some("TV"), Some("bogus")}

ModelRules ==
    {Model(RuleC, tpl, dev, br) :
        tpl \in {None, Some(<<"N", " ", "$", "1">>)},
        dev \in {None, Some("tablet"), Some("bogus")},
        br \in {None, Some(Str("Other"))}}

\* Device files of one brand with at most one model rule.
OneBrandFiles ==
    {<<Brand(Str("B"), Some(GateA), dev, tpl, models)>> :
        dev \in DeviceStrings,
        tpl \in {None, Some(<<"M", " ", "$", "1", ".">>)},
        models \in {None} \cup {Some(<<r>>) : r \in ModelRules}}

\* The detector parts detect_device reads, for one file without pre-filter.
OneFileDetector(file, default_type) ==
    [device_parsers |->
        <<[default_type |-> default_type,
           prefilter |-> [ok |-> TRUE, kind |-> "None", re |-> PatAlts(<<>>, "std", {})],
           claims_type |-> FALSE,
           parser |-> build_device_brand_parser(file, default_type).parser]>>]

InitDevice ==
    /\ args \in {[fn |-> "detect_device", file |-> f, default_type |-> t,
                  detector |-> OneFileDetector(f, t), ua |-> u] :
                    f \in OneBrandFiles, t \in {"smartphone", "console"},
                    u \in SUBSET {"a", "c"}}
    /\ ret = None
    /\ qs = NoCalls

ApplyDetectDevice ==
    /\ args.fn = "detect_device"
    /\ ret = None
    /\ ret' = Some(detect_device(args.detector, args.ua))
    /\ UNCHANGED <<args, qs>>

NextDevice == ApplyDetectDevice

SpecDevice == InitDevice /\ [][NextDevice]_vars

----------------------------------------------------------------------------
(* resolve_engine on drawn client data *)

\* Entries of a drawn versions mapping.  Of the names, one differs from the
\* name in the engine rules by letter case only and one is empty.
VersionEntries ==
    {[threshold |-> th, name |-> n] :
        th \in {<<"1">>, <<"2">>, <<"3">>}, n \in {Str("webkit"), Str("Blink"), EmptyStr}}

\* An IndexMap holds a key once.
DistinctThresholds(l) ==
    \A i, j \in 1..Len(l) : l[i].threshold = l[j].threshold => i = j

\* ClientData as far as resolve_engine reads it.
DrawnClientData ==
    {[engine_default |-> dflt, engine_versions |-> vs] :
        dflt \in {None} \cup {Some(n) : n \in {Str("Gecko"), Str("Blink"), EmptyStr}},
        vs \in {None} \cup {Some(l) : l \in {x \in SeqsUpTo(VersionEntries, MaxVersions) :
                                                DistinctThresholds(x)}}}

\* The engine rules drawn: those of the rule set, and the same with the name
\* of the second rule empty.
DrawnEngineRules ==
    {BrowserEngineYml, [BrowserEngineYml EXCEPT ![2].name = EmptyStr]}

\* The engine parser from_dir builds of engine rules.
EngineParserOf(engines) ==
    CompiledParser_build(
        [i \in 1..Len(engines) |->
            [pattern |-> engines[i].regex, data |-> [name |-> engines[i].name]]])

InitEngine ==
    /\ args \in {[fn |-> "resolve_engine", engines |-> e, client_data |-> cd,
                  browser_version |-> bv, ua |-> u] :
                    e \in DrawnEngineRules,
                    cd \in DrawnClientData, bv \in {EmptyStr, <<"2">>, <<"3">>},
                    u \in SUBSET {"AppleWebKit/537", "Chrome/90"}}
    /\ ret = None
    /\ qs = NoCalls

\* One call of resolve_engine; engine_name is its local when a default is set.
ApplyResolveEngine ==
    /\ args.fn = "resolve_engine"
    /\ ret = None
    /\ ret' = Some([engine_name |->
                        IF IsSome(args.client_data.engine_default)
                        THEN Some(ChosenEngineName(args.client_data, args.browser_version))
                        ELSE None,
                    result |-> resolve_engine(
                                   [Detector EXCEPT
                                       !.engine_parser = EngineParserOf(args.engines)],
                                   args.ua, args.client_data, args.browser_version)])
    /\ UNCHANGED <<args, qs>>

NextEngine == ApplyResolveEngine

SpecEngine == InitEngine /\ [][NextEngine]_vars

----------------------------------------------------------------------------
(* from_dir on drawn regexes directories: the rule set with faults *)

\* A rule regex neither engine compiles; one the regex crate compiles and
\* Builder::push rejects; one that makes Builder::build fail.
FaultyPattern(kind) ==
    IF kind = "invalid" THEN Pat("zz", "invalid", {}, <<>>)
    ELSE [Lit("zz") EXCEPT !.filtered = kind]

\* The entry a fault adds to a rule file, in the schema of the file.
FaultyEntry(file, kind) ==
    CASE file \in {"feed_readers", "libraries"} ->
            [regex |-> FaultyPattern(kind), name |-> Str("zz"), version |-> None,
             engine |-> None]
      [] file = "browser_engine" ->
            [regex |-> FaultyPattern(kind), name |-> Str("zz")]
      [] file = "vendorfragments" ->
            [brand |-> Str("zz"), patterns |-> <<FaultyPattern(kind)>>]
      [] file = "mobiles" ->
            Brand(Str("zz"), Some(Lit("zz")), None, None,
                  Some(<<Model(FaultyPattern(kind), None, None, None)>>))
      [] OTHER ->
            Brand(Str("zz"), Some(FaultyPattern(kind)), None, None, None)

\* The faults drawn: a file that cannot be read, a file that does not
\* deserialise, a rule or model regex that does not compile, a rule the
\* regex_filtered set rejects at push or at build.
Faults ==
    {<<"io", f>> : f \in {"bots", "pim", "mobiles", "browser_hints"}}
    \cup {<<"yaml", f>> : f \in {"oss", "browsers", "consoles", "app_hints"}}
    \cup {<<"invalid", f>> : f \in {"browser_engine", "feed_readers", "televisions",
                                    "mobiles"}}
    \cup {<<"build_err", f>> : f \in {"vendorfragments", "cameras"}}
    \cup {<<"push_err", f>> : f \in {"libraries", "notebooks"}}

\* The regexes directory with the faults F.
RECURSIVE FaultyDir(_, _)
FaultyDir(dir, F) ==
    IF F = {} THEN dir
    ELSE LET x == CHOOSE y \in F : TRUE
             kind == x[1]
             file == x[2]
             rest == FaultyDir(dir, F \ {x})
         IN  CASE kind = "io" -> [rest EXCEPT !.unreadable = @ \cup {file}]
               [] kind = "yaml" -> [rest EXCEPT !.malformed = @ \cup {file}]
               [] OTHER -> [rest EXCEPT ![file] = Append(@, FaultyEntry(file, kind))]

InitBuild ==
    /\ args \in {[fn |-> "from_dir", faults |-> F, dir |-> FaultyDir(RegexesDir, F)] :
                    F \in SubsetsUpTo(Faults, MaxFaults)}
    /\ ret = None
    /\ qs = NoCalls

\* One call of from_dir, ending in one of the ways it can end.
ApplyFromDir ==
    /\ args.fn = "from_dir"
    /\ ret = None
    /\ \E result \in {from_dir(args.dir)} :
          \E outcome \in result.outcomes :
              ret' = Some([outcome |-> outcome,
                           detector |-> IF outcome = "" THEN result.detector ELSE None])
    /\ UNCHANGED <<args, qs>>

NextBuild == ApplyFromDir

SpecBuild == InitBuild /\ [][NextBuild]_vars

----------------------------------------------------------------------------
(* from_dir task by task.  rayon::join runs the flat-list closure and the  *)
(* device closure side by side; the six client files, the eight device     *)
(* files, the brands of a file and the classification of the rules of a    *)
(* table are parallel maps, whose tasks end in any order.  The bot table   *)
(* stands for the tables and consoles.yml for the files whose inner tasks  *)
(* are followed one by one.                                                *)

\* The device file whose brands are built task by task.
ConsolesIdx == CHOOSE k \in 1..Len(DeviceSpecs) : DeviceSpecs[k].file = "consoles"

\* The items from_dir hands to CompiledParser::build for the bot table.
BotItems(dir) ==
    [i \in 1..Len(dir.bots) |->
        [pattern |-> dir.bots[i].regex,
         data |-> [name |-> dir.bots[i].name, category |-> dir.bots[i].category,
                   url |-> dir.bots[i].url, producer |-> dir.bots[i].producer]]]

ParTasks ==
    {<<"classify", i>> : i \in 1..Len(BotsYml)}
    \cup {<<"bots", 1>>, <<"oss", 1>>, <<"engine", 1>>, <<"vendor", 1>>}
    \cup {<<"client", k>> : k \in 1..Len(ClientSpecs)}
    \cup {<<"brand", i>> : i \in 1..Len(SelectSeq(ConsolesYml, HasRegex))}
    \cup {<<"device", k>> : k \in 1..Len(DeviceSpecs)}

\* Every task of a parallel map has ended.
Filled(slots) == \A k \in 1..Len(slots) : IsSome(slots[k])

\* The collected vector.
Values(slots) == [k \in 1..Len(slots) |-> Unwrap(slots[k])]

\* Variant: the results are collected in the order the tasks end.
CollectAsCompleted(slots, k, v) ==
    LET free == {j \in 1..Len(slots) : ~IsSome(slots[j])}
    IN  [slots EXCEPT ![CHOOSE j \in free : \A l \in free : j <= l] = Some(v)]

\* collect() of an indexed parallel iterator into a Vec: the result of the
\* k-th item is the k-th element, whenever its task ends.
Collect(slots, k, v) == [slots EXCEPT ![k] = Some(v)]

\* The task can run now.
TaskReady(st, t) ==
    CASE t[1] = "classify" -> st.flat_pc = "bots" /\ ~IsSome(st.is_standard[t[2]])
      [] t[1] = "bots" -> st.flat_pc = "bots" /\ Filled(st.is_standard)
      [] t[1] = "oss" -> st.flat_pc = "oss"
      [] t[1] = "client" -> st.flat_pc = "clients" /\ ~IsSome(st.client_parsers[t[2]])
      [] t[1] = "engine" -> st.flat_pc = "clients" /\ Filled(st.client_parsers)
      [] t[1] = "vendor" -> st.flat_pc = "vendor"
      [] t[1] = "brand" -> ~IsSome(st.built_items[t[2]])
      [] t[1] = "device" ->
            /\ ~IsSome(st.device_parsers[t[2]])
            /\ t[2] = ConsolesIdx => Filled(st.built_items)

\* The construction after the task has run.
TaskDone(st, dir, t) ==
    LET k == t[2]
    IN  CASE t[1] = "classify" ->
               [st EXCEPT !.is_standard =
                   Collect(@, k, regex_new_is_ok(full_pattern(dir.bots[k].regex)))]
          [] t[1] = "bots" ->
               [st EXCEPT !.flat_pc = "oss",
                          !.bot_parser =
                              Some(CompiledParser_from(BotItems(dir),
                                                       Values(st.is_standard)))]
          [] t[1] = "oss" ->
               [st EXCEPT !.flat_pc = "clients",
                          !.os_parser =
                              Some(CompiledParser_build(
                                  [i \in 1..Len(dir.oss) |->
                                      [pattern |-> dir.oss[i].regex,
                                       data |-> [name |-> dir.oss[i].name,
                                                 version_template |->
                                                     dir.oss[i].version]]]))]
          [] t[1] = "client" ->
               [st EXCEPT !.client_parsers =
                   Collect(@, k, build_client_parser(dir[ClientSpecs[k].file],
                                                     ClientSpecs[k].kind))]
          [] t[1] = "engine" ->
               [st EXCEPT !.flat_pc = "vendor",
                          !.engine_parser =
                              Some(CompiledParser_build(
                                  [i \in 1..Len(dir.browser_engine) |->
                                      [pattern |-> dir.browser_engine[i].regex,
                                       data |-> [name |-> dir.browser_engine[i].name]]]))]
          [] t[1] = "vendor" ->
               [st EXCEPT !.flat_pc = "end",
                          !.vendor_fragment_parser =
                              Some(CompiledParser_build(
                                  VendorFragmentItems(dir.vendorfragments, 1)))]
          [] t[1] = "brand" ->
               [st EXCEPT !.built_items =
                   Collect(@, k, BuiltBrandItem(SelectSeq(dir.consoles, HasRegex)[k],
                                                DeviceSpecs[ConsolesIdx].device_type))]
          [] t[1] = "device" ->
               [st EXCEPT !.device_parsers =
                   Collect(@, k,
                       IF k = ConsolesIdx
                       THEN [BuildDeviceParser(dir, DeviceSpecs[k]) EXCEPT
                                !.parser = DeviceBrandParser_build(Values(st.built_items))]
                       ELSE BuildDeviceParser(dir, DeviceSpecs[k]))]

InitPar ==
    /\ args = [fn |-> "par_from_dir", dir |-> RegexesDir]
    /\ ret = [flat_pc |-> "bots",
              is_standard |-> [i \in 1..Len(BotsYml) |-> None],
              bot_parser |-> None, os_parser |-> None,
              client_parsers |-> [k \in 1..Len(ClientSpecs) |-> None],
              engine_parser |-> None, vendor_fragment_parser |-> None,
              built_items |-> [i \in 1..Len(SelectSeq(ConsolesYml, HasRegex)) |-> None],
              device_parsers |-> [k \in 1..Len(DeviceSpecs) |-> None],
              detector |-> None]
    /\ qs = NoCalls

\* One task of the construction runs to its end.
CompleteTask(t) ==
    /\ args.fn = "par_from_dir"
    /\ TaskReady(ret, t)
    /\ ret' = TaskDone(ret, args.dir, t)
    /\ UNCHANGED <<args, qs>>

\* Both closures of the join have returned: the detector is put together.
FinishJoin ==
    /\ args.fn = "par_from_dir"
    /\ ret.flat_pc = "end"
    /\ Filled(ret.device_parsers)
    /\ ~IsSome(ret.detector)
    /\ ret' = [ret EXCEPT !.detector =
                  Some([bot_parser |-> Unwrap(ret.bot_parser),
                        os_parser |-> Unwrap(ret.os_parser),
                        browser_parser |-> Values(ret.client_parsers)[1],
                        feed_reader_parser |-> Values(ret.client_parsers)[2],
                        mobile_app_parser |-> Values(ret.client_parsers)[3],
                        library_parser |-> Values(ret.client_parsers)[4],
                        media_player_parser |-> Values(ret.client_parsers)[5],
                        pim_parser |-> Values(ret.client_parsers)[6],
                        engine_parser |-> Unwrap(ret.engine_parser),
                        vendor_fragment_parser |-> Unwrap(ret.vendor_fragment_parser),
                        device_parsers |-> Values(ret.device_parsers),
                        heuristic_regexes |-> HeuristicRegexes_compile,
                        app_hints |-> args.dir.app_hints,
                        browser_hints |-> args.dir.browser_hints])]
    /\ UNCHANGED <<args, qs>>

NextPar == (\E t \in ParTasks : CompleteTask(t)) \/ FinishJoin

SpecPar == InitPar /\ [][NextPar]_vars

----------------------------------------------------------------------------
(* The detection pipeline: one call on the detector, step by step.         *)

Init ==
    /\ qs \in {[s \in Slots |-> IF s = "q1" THEN Start(in.ua, in.hints) ELSE NoCall] :
                  in \in Inputs}
    /\ args = None
    /\ ret = None

StepBotCheck(self, s) ==
    /\ qs[s].pc = "bot"
    /\ qs' = [qs EXCEPT ![s] = BotCheck(self, Locals(qs, s))]
    /\ UNCHANGED <<args, ret>>

StepOsDetection(self, s) ==
    /\ qs[s].pc = "os"
    /\ qs' = [qs EXCEPT ![s] = OsDetection(self, Locals(qs, s))]
    /\ UNCHANGED <<args, ret>>

StepClientDetection(self, s) ==
    /\ qs[s].pc = "client"
    /\ qs' = [qs EXCEPT ![s] = ClientDetection(self, Locals(qs, s))]
    /\ UNCHANGED <<args, ret>>

StepXrwOverride(self, s) ==
    /\ qs[s].pc = "xrw"
    /\ qs' = [qs EXCEPT ![s] = XrwOverride(self, Locals(qs, s))]
    /\ UNCHANGED <<args, ret>>

StepDeviceDetection(self, s) ==
    /\ qs[s].pc = "device"
    /\ qs' = [qs EXCEPT ![s] = DeviceDetection(self, Locals(qs, s))]
    /\ UNCHANGED <<args, ret>>

StepScrubUnknownBrand(self, s) ==
    /\ qs[s].pc = "scrub"
    /\ qs' = [qs EXCEPT ![s] = ScrubUnknownBrand(self, Locals(qs, s))]
    /\ UNCHANGED <<args, ret>>

StepVendorFragment(self, s) ==
    /\ qs[s].pc = "vendor"
    /\ qs' = [qs EXCEPT ![s] = VendorFragment(self, Locals(qs, s))]
    /\ UNCHANGED <<args, ret>>

StepAppleBrand(self, s) ==
    /\ qs[s].pc = "apple"
    /\ qs' = [qs EXCEPT ![s] = AppleBrand(self, Locals(qs, s))]
    /\ UNCHANGED <<args, ret>>

StepDeviceTypeHeuristics(self, s) ==
    /\ qs[s].pc = "heuristics"
    /\ qs' = [qs EXCEPT ![s] = DeviceTypeHeuristics(self, Locals(qs, s))]
    /\ UNCHANGED <<args, ret>>

StepHintModel(self, s) ==
    /\ qs[s].pc = "hint_model"
    /\ qs' = [qs EXCEPT ![s] = HintModel(self, Locals(qs, s))]
    /\ UNCHANGED <<args, ret>>

StepHintMobile(self, s) ==
    /\ qs[s].pc = "hint_mobile"
    /\ qs' = [qs EXCEPT ![s] = HintMobile(self, Locals(qs, s))]
    /\ UNCHANGED <<args, ret>>

StepBuildDetection(self, s) ==
    /\ qs[s].pc = "build"
    /\ qs' = [qs EXCEPT ![s] = BuildDetection(self, Locals(qs, s))]
    /\ UNCHANGED <<args, ret>>

\* Every call borrows the one detector that from_dir built (&self).
Next ==
    \E self \in {Detector}, s \in Slots :
        \/ StepBotCheck(self, s)
        \/ StepOsDetection(self, s)
        \/ StepClientDetection(self, s)
        \/ StepXrwOverride(self, s)
        \/ StepDeviceDetection(self, s)
        \/ StepScrubUnknownBrand(self, s)
        \/ StepVendorFragment(self, s)
        \/ StepAppleBrand(self, s)
        \/ StepDeviceTypeHeuristics(self, s)
        \/ StepHintModel(self, s)
        \/ StepHintMobile(self, s)
        \/ StepBuildDetection(self, s)

Spec == Init /\ [][Next]_vars

\* Two threads call parse_with_hints on the one detector, each call after
\* call, their steps interleaved.
InitConc ==
    /\ qs \in [Slots -> {Start(in.ua, in.hints) : in \in ConcInputs}]
    /\ args = None
    /\ ret = None

\* A thread whose call has returned makes its next call.
NewCall(s) ==
    /\ qs[s].pc = "done"
    /\ \E in \in ConcInputs : qs' = [qs EXCEPT ![s] = Start(in.ua, in.hints)]
    /\ UNCHANGED <<args, ret>>

NextConc == Next \/ \E s \in Slots : NewCall(s)

SpecConc == InitConc /\ [][NextConc]_vars

----------------------------------------------------------------------------
(* parse_with_hints twice on one user agent, with two values of the hints *)

\* A call run to its end, as the properties read it: its hints, its locals
\* after the heuristics (those of its end when it reported a bot) and its
\* locals at its end.
RECURSIVE CallFrom(_, _, _)
CallFrom(d, q, ladder) ==
    IF q.pc = "done"
    THEN [hints |-> q.hints, ladder |-> IF IsSome(ladder) THEN Unwrap(ladder) ELSE q,
          final |-> q]
    ELSE CallFrom(d, Step(d, q), IF q.pc = "hint_model" THEN Some(q) ELSE ladder)

\* The fragments of the user agents of the two calls.
PairFragments ==
    {"Googlebot", "Kylo/", "Android 10", "SM-G973F", "Mac OS X", "Windows NT 10.0"}

\* Every value of Option<&ClientHints> over the drawn header values.
AllHints ==
    {None} \cup
    {Some([x_requested_with |-> x, model |-> m, mobile |-> b]) :
        x \in {None, Some("com.myapp"), Some("com.android.chrome"), Some("org.other")},
        m \in {None, Some(EmptyStr), Some(Str("HintModel"))},
        b \in {None, Some(TRUE), Some(FALSE)}}

InitHints ==
    /\ args \in {[fn |-> "parse_with_hints", ua |-> u, hints |-> h] :
                    u \in SubsetsUpTo(PairFragments, MaxPairFragments),
                    h \in {p \in AllHints \X AllHints : p[1] # p[2]}}
    /\ ret = None
    /\ qs = NoCalls

\* The two calls, each run from its entry to its return.
ApplyParsePair(self) ==
    /\ args.fn = "parse_with_hints"
    /\ ret = None
    /\ ret' = Some(Vec([k \in 1..2 |-> CallFrom(self, Start(args.ua, args.hints[k]), None)]))
    /\ UNCHANGED <<args, qs>>

NextHints == \E self \in {Detector} : ApplyParsePair(self)

SpecHints == InitHints /\ [][NextHints]_vars

----------------------------------------------------------------------------

(* literal.rs: extract_literals *)

(***************************************************************************)
(* A pattern here is text, an alternation of branches; a branch is a       *)
(* literal of letters followed or not by "\d+":                            *)
(*   syntax  "ok" when regex_syntax::parse accepts the text, "unsupported" *)
(*           when it returns Err (a look-around somewhere in the text),    *)
(*   alts    the branches [lit, digits], in order.                         *)
(* Strings are sequences of one-byte characters.                           *)
(***************************************************************************)

LitLetters == {"F", "x"}

InputBytes == LitLetters \cup {"1"}

\* char::to_lowercase on the bytes drawn.
LowerByte(c) == IF c = "F" THEN "f" ELSE c

\* str::to_lowercase
str_to_lowercase(s) == [i \in 1..Len(s) |-> LowerByte(s[i])]

\* needle occurs in hay at position i.
OccursAt(needle, hay, i) ==
    /\ i + Len(needle) - 1 <= Len(hay)
    /\ \A k \in 1..Len(needle) : hay[i + k - 1] = needle[k]

\* str::contains
str_contains(hay, needle) == \E i \in 1..(Len(hay) + 1) : OccursAt(needle, hay, i)

\* The regex of the pattern finds a match in the input: some branch has its
\* literal in it, followed by a digit when the branch ends in "\d+".
LitPatternMatches(pattern, input) ==
    \E a \in 1..Len(pattern.alts), i \in 1..(Len(input) + 1) :
        LET alt == pattern.alts[a]
            after == i + Len(alt.lit)
        IN  /\ OccursAt(alt.lit, input, i)
            /\ alt.digits => (after <= Len(input) /\ input[after] = "1")

\* Seq::dedup: of adjacent equal literals one is kept, inexact when the two
\* differ in exactness.
RECURSIVE SeqDedup(_)
SeqDedup(lits) ==
    IF Len(lits) < 2 THEN lits
    ELSE IF lits[1].bytes = lits[2].bytes
    THEN SeqDedup(<<[bytes |-> lits[1].bytes,
                     exact |-> lits[1].exact /\ lits[2].exact]>>
                  \o SubSeq(lits, 3, Len(lits)))
    ELSE <<lits[1]>> \o SeqDedup(Tail(lits))

\* Extractor::extract with ExtractKind::Prefix, as the regex_syntax crate
\* documents it: None for the infinite sequence, else the prefix literals.
\* A branch gives its literal, inexact when "\d+" follows (the class \d is
\* larger than limit_class); the cross product of the empty literal with
\* an infinite sequence is infinite, and so is a union with it.
Extractor_extract(hir) ==
    IF \E a \in 1..Len(hir.alts) : hir.alts[a].lit = <<>> /\ hir.alts[a].digits
    THEN None
    ELSE Some(SeqDedup([a \in 1..Len(hir.alts) |->
                           [bytes |-> hir.alts[a].lit,
                            exact |-> ~hir.alts[a].digits]]))

\* The literals of the sequence that pass the filter_map, in order.
RECURSIVE FilterMapLiterals(_, _)
FilterMapLiterals(lits, min_len) ==
    IF lits = <<>> THEN <<>>
    ELSE (IF Len(lits[1].bytes) >= min_len
          THEN <<str_to_lowercase(lits[1].bytes)>> ELSE <<>>)
         \o FilterMapLiterals(Tail(lits), min_len)

\* extract_literals
extract_literals(pattern, min_len) ==
    IF pattern.syntax # "ok" THEN <<>>
    ELSE LET seq == Extractor_extract(pattern)
         IN  IF seq = None THEN <<>>
             ELSE FilterMapLiterals(Unwrap(seq), min_len)

LitBranches ==
    {[lit |-> l, digits |-> d] : l \in SeqsUpTo(LitLetters, MaxLitLen), d \in BOOLEAN}

LitPatterns ==
    {[syntax |-> s, alts |-> a] :
        s \in {"ok", "unsupported"},
        a \in SeqsUpTo(LitBranches, MaxLitAlts) \ {<<>>}}

InitLiterals ==
    /\ args \in {[fn |-> "extract_literals", pattern |-> p, min_len |-> n, input |-> i] :
                    p \in LitPatterns, n \in 1..(MaxLitLen + 1),
                    i \in SeqsUpTo(InputBytes, MaxLitLen)}
    /\ ret = None
    /\ qs = NoCalls

ApplyExtractLiterals ==
    /\ args.fn = "extract_literals"
    /\ ret = None
    /\ ret' = Some(extract_literals(args.pattern, args.min_len))
    /\ UNCHANGED <<args, qs>>

NextLiterals == ApplyExtractLiterals

SpecLiterals == InitLiterals /\ [][NextLiterals]_vars

----------------------------------------------------------------------------

(* Reference definitions used by the properties *)

Max(S) == CHOOSE x \in S : \A y \in S : y <= x

Min(S) == CHOOSE x \in S : \A y \in S : x <= y

\* Position i of the template starts a "$d" placeholder.
IsPlaceholderAt(t, i) == t[i] = "$" /\ i < Len(t) /\ t[i + 1] \in Digits

HasPlaceholder(t) == \E i \in 1..Len(t) : IsPlaceholderAt(t, i)

\* What position i of the template contributes to the expansion.
RefPiece(t, c, i) ==
    IF IsPlaceholderAt(t, i)
    THEN (IF DigitVal(t[i + 1]) < Len(c) /\ c[DigitVal(t[i + 1]) + 1] # None
          THEN c[DigitVal(t[i + 1]) + 1][1] ELSE <<>>)
    ELSE IF i > 1 /\ IsPlaceholderAt(t, i - 1) THEN <<>>
    ELSE <<t[i]>>

RECURSIVE RefConcat(_, _, _)
RefConcat(t, c, n) ==
    IF n = 0 THEN <<>> ELSE RefConcat(t, c, n - 1) \o RefPiece(t, c, n)

RefTrim(s) ==
    SubSeq(s, 1, Max({0} \cup {j \in 1..Len(s) : s[j] \notin {" ", "\t", "\n", "."}}))

RefSubstitute(t, c) == RefTrim(RefConcat(t, c, Len(t)))

\* Component k of a split version, 0 when the version has fewer components.
RefComponent(comps, k) == IF k <= Len(comps) THEN ParseU32OrZero(comps[k]) ELSE 0

RefVersionLt(a, b) ==
    LET ca == SplitDot(a, 1, <<>>)
        cb == SplitDot(b, 1, <<>>)
        n == IF Len(ca) > Len(cb) THEN Len(ca) ELSE Len(cb)
    IN  \E k \in 1..n :
            /\ RefComponent(ca, k) < RefComponent(cb, k)
            /\ \A j \in 1..(k - 1) : RefComponent(ca, j) = RefComponent(cb, j)

\* The compiled regex of a pattern matches the user agent; an evaluation
\* that gives up is not a match.
RegexFires(full, ua) ==
    IF regex_new_is_ok(full) THEN std_is_match(full, ua)
    ELSE fancy_captures(full, ua).st = "some"

RegexGivesUp(full, ua) ==
    ~regex_new_is_ok(full) /\ fancy_captures(full, ua).st = "err"

FiringRules(items, ua) ==
    {i \in 1..Len(items) : RegexFires(full_pattern(items[i].pattern), ua)}

FiringModels(models, ua) ==
    {j \in 1..Len(models) : RegexFires(models[j].regex, ua)}

----------------------------------------------------------------------------
(* Properties *)

\* C7: substitute is total and equals the reference expansion: "$d" becomes
\* group d (nothing when the group is missing), any other "$" stays, the
\* result loses its trailing whitespace and dots; without a placeholder the
\* result is the trimmed template.
C7_SubstituteIsReferenceExpansion ==
    IsSome(ret) =>
        /\ Unwrap(ret) = RefSubstitute(args.template, args.captures)
        /\ ~HasPlaceholder(args.template) => Unwrap(ret) = RefTrim(args.template)

\* A lone "$", then a placeholder of a group the regex does not have.
C7_Witness ==
    /\ IsSome(ret)
    /\ args.template = <<"$", "$", "2">>
    /\ Len(args.captures) = 2
    /\ Unwrap(ret) = <<"$">>

\* C8: version_ge is the negation of version_lt, and no version is less than
\* itself.
C8_GeIsNotLtAndLtIrreflexive ==
    /\ (IsSome(ret.lt) /\ IsSome(ret.ge)) => (Unwrap(ret.ge) = ~Unwrap(ret.lt))
    /\ (IsSome(ret.lt) /\ args.a = args.b) => (Unwrap(ret.lt) = FALSE)

C8_Witness ==
    /\ IsSome(ret.lt) /\ IsSome(ret.ge)
    /\ args.a = <<"1", ".", "0">> /\ args.b = args.a
    /\ Unwrap(ret.ge) = TRUE

\* C9: version_lt(a, b) is the left-to-right comparison of the numeric
\* components with the shorter version padded by zeros at every remaining
\* position.
C9_VersionLtPadsWithZeros ==
    IsSome(ret.lt) => (Unwrap(ret.lt) = RefVersionLt(args.a, args.b))

\* b has more components than a, a padded with zeros is less than b, and
\* version_lt has answered false.
C9_Witness ==
    /\ IsSome(ret.lt)
    /\ Len(SplitDot(args.a, 1, <<>>)) < Len(SplitDot(args.b, 1, <<>>))
    /\ RefVersionLt(args.a, args.b)
    /\ Unwrap(ret.lt) = FALSE

\* C2: match_first returns the lowest-index rule whose regex matches, None
\* iff no rule matches, however the rules split between the two engines.
C2_MatchFirstIsLowestIndex ==
    IsSome(ret) =>
        LET firing == FiringRules(args.items, args.ua)
            res == Unwrap(ret)
        IN  /\ (res = None) <=> (firing = {})
            /\ IsSome(res) => Unwrap(res).data = Min(firing)

\* A fancy rule wins although a standard rule further down matches too.
C2_Witness ==
    /\ IsSome(ret) /\ IsSome(Unwrap(ret))
    /\ Unwrap(Unwrap(ret)).engine = "Fancy"
    /\ \E i \in FiringRules(args.items, args.ua) :
          /\ i > Unwrap(Unwrap(ret)).data
          /\ regex_new_is_ok(full_pattern(args.items[i].pattern))

\* C3: the brand matcher selects the lowest-index brand whose gate matches
\* and, within that brand only, the first matching model rule, or no model.
C3_BrandThenOwnModels ==
    IsSome(ret) =>
        LET firing == FiringRules(args.file, args.ua)
            res == Unwrap(ret)
        IN  /\ (res = None) <=> (firing = {})
            /\ IsSome(res) =>
                 LET b == Min(firing)
                     fm == FiringModels(args.file[b].models, args.ua)
                     mm == Unwrap(res).model_match
                 IN  /\ Unwrap(res).brand_data = b
                     /\ (mm = None) <=> (fm = {})
                     /\ IsSome(mm) => Unwrap(mm).data = <<b, Min(fm)>>

\* The matched brand has no matching model while a later brand has one.
C3_Witness ==
    /\ IsSome(ret) /\ IsSome(Unwrap(ret))
    /\ Unwrap(Unwrap(ret)).model_match = None
    /\ \E i \in 1..Len(args.file) :
          /\ i > Unwrap(Unwrap(ret)).brand_data
          /\ FiringModels(args.file[i].models, args.ua) # {}

\* C10: when the Overall pre-filter of a device file reports no match, no
\* brand gate of the file matches the user agent.
C10_OverallPrefilterIsConservative ==
    (args.prefilter.kind = "OverallMatch" /\ ret.pre = Some(FALSE)) =>
        \A i \in 1..Len(args.gates) : ~RegexFires(full_pattern(args.gates[i]), args.ua)

\* The pre-filter has reported no match on a user agent for which the brand
\* parser of the file finds a brand.
C10_Witness ==
    /\ args.prefilter.kind = "OverallMatch"
    /\ ret.pre = Some(FALSE)
    /\ IsSome(ret.brand) /\ IsSome(Unwrap(ret.brand))

\* The bot rules as from_dir hands them to CompiledParser::build.
BotRules == [i \in 1..Len(BotsYml) |-> [pattern |-> BotsYml[i].regex]]

\* C1: when a bot rule matches the user agent, the call goes from the bot
\* check straight to its return, and the Detection it returns has bot set
\* and os, client and device all None, whatever the hints are.
C1_BotShortCircuits ==
    \A s \in Slots :
        (qs[s].pc # "idle" /\ FiringRules(BotRules, qs[s].ua) # {}) =>
            /\ qs[s].pc \in {"bot", "done"}
            /\ qs[s].pc = "done" =>
                  /\ IsSome(Unwrap(qs[s].result).bot)
                  /\ Unwrap(qs[s].result).os = None
                  /\ Unwrap(qs[s].result).client = None
                  /\ Unwrap(qs[s].result).device = None

\* A bot was found in a user agent that also names an operating system.
C1_Witness ==
    /\ qs["q1"].pc = "done"
    /\ IsSome(Unwrap(qs["q1"].result).bot)
    /\ "Android 10" \in qs["q1"].ua

\* C4: in a non-bot result, device is Some exactly when the final kind is
\* set or the final brand is non-empty, and then carries the final kind,
\* brand and model; a model alone does not make a Device.
C4_DeviceIffKindOrBrand ==
    \A s \in Slots :
        (qs[s].pc = "done" /\ ~IsSome(Unwrap(qs[s].result).bot)) =>
            LET device == Unwrap(qs[s].result).device
            IN  /\ IsSome(device) <=>
                      (IsSome(qs[s].device_type) \/ qs[s].brand # EmptyStr)
                /\ IsSome(device) =>
                      Unwrap(device) = [kind |-> qs[s].device_type,
                                        brand |-> qs[s].brand,
                                        model |-> qs[s].model]

\* The hints supplied a model, nothing gave a kind or a brand: no Device.
C4_Witness ==
    /\ qs["q1"].pc = "done"
    /\ qs["q1"].model = Str("HintModel")
    /\ ~IsSome(qs["q1"].device_type)
    /\ qs["q1"].brand = EmptyStr
    /\ Unwrap(qs["q1"].result).device = None

\* C5: whatever calls came before on a thread and however the steps of two
\* calls interleave, a call returns what parse_with_hints, as a function of
\* the detector, the user agent and the hints, gives.
C5_ResultDependsOnArgumentsOnly ==
    \A s \in Slots :
        qs[s].pc = "done" =>
            Unwrap(qs[s].result) = parse_with_hints(Detector, qs[s].ua, qs[s].hints)

\* One call has returned a branded device while the other, on a user agent
\* that leads to no device, is past its device steps.
C5_Witness ==
    /\ qs["q1"].pc = "done"
    /\ IsSome(Unwrap(qs["q1"].result).device)
    /\ qs["q1"].brand = Str("Apple")
    /\ qs["q2"].pc = "done"
    /\ ~IsSome(Unwrap(qs["q2"].result).bot)
    /\ Unwrap(qs["q2"].result).device = None

\* The regex with the alternatives it can match on this user agent: none
\* where the backtracking engine gives up on it.
Quiet(re, ua) ==
    IF re.syntax = "fancy" /\ (re.bad \cap ua) # {}
    THEN [re EXCEPT !.alts = <<>>, !.bad = {}]
    ELSE re

QuietParser(parser, ua) ==
    [parser EXCEPT !.fancy_entries =
        [k \in 1..Len(parser.fancy_entries) |->
            [idx |-> parser.fancy_entries[k].idx,
             re |-> Quiet(parser.fancy_entries[k].re, ua)]]]

QuietBrandParser(parser, ua) ==
    [parser EXCEPT
        !.fancy_brands =
            [k \in 1..Len(parser.fancy_brands) |->
                [idx |-> parser.fancy_brands[k].idx,
                 re |-> Quiet(parser.fancy_brands[k].re, ua)]],
        !.brands =
            [i \in 1..Len(parser.brands) |->
                [data |-> parser.brands[i].data,
                 models |-> [j \in 1..Len(parser.brands[i].models) |->
                                [regex |-> Quiet(parser.brands[i].models[j].regex, ua),
                                 data |-> parser.brands[i].models[j].data]]]]]

\* The detector in which every regex that gives up on ua is replaced by one
\* that does not match.
QuietDetector(d, ua) ==
    [d EXCEPT
        !.bot_parser = QuietParser(d.bot_parser, ua),
        !.os_parser = QuietParser(d.os_parser, ua),
        !.browser_parser = QuietParser(d.browser_parser, ua),
        !.feed_reader_parser = QuietParser(d.feed_reader_parser, ua),
        !.mobile_app_parser = QuietParser(d.mobile_app_parser, ua),
        !.library_parser = QuietParser(d.library_parser, ua),
        !.media_player_parser = QuietParser(d.media_player_parser, ua),
        !.pim_parser = QuietParser(d.pim_parser, ua),
        !.engine_parser = QuietParser(d.engine_parser, ua),
        !.vendor_fragment_parser = QuietParser(d.vendor_fragment_parser, ua),
        !.device_parsers =
            [k \in 1..Len(d.device_parsers) |->
                [d.device_parsers[k] EXCEPT
                    !.prefilter.re = Quiet(d.device_parsers[k].prefilter.re, ua),
                    !.parser = QuietBrandParser(d.device_parsers[k].parser, ua)]],
        !.heuristic_regexes =
            [f \in DOMAIN d.heuristic_regexes |-> Quiet(d.heuristic_regexes[f], ua)]]

\* Some regex of the detector gives up on the user agent.
SomeRegexGivesUp(d, ua) == QuietDetector(d, ua) # d

\* C6: a regex that fails at match time counts as one that did not match:
\* every call returns a Detection, and it is the Detection of the detector
\* whose failing regexes are replaced by regexes that do not match.
C6_MatchFailureIsNoMatch ==
    \A s \in Slots :
        qs[s].pc = "done" =>
            /\ IsSome(qs[s].result)
            /\ Unwrap(qs[s].result) =
                  parse_with_hints(QuietDetector(Detector, qs[s].ua), qs[s].ua,
                                   qs[s].hints)

\* The first bot rule gave up, the second one matched and is the result.
C6_Witness ==
    /\ qs["q1"].pc = "done"
    /\ RegexGivesUp(full_pattern(BotsYml[1].regex), qs["q1"].ua)
    /\ IsSome(Unwrap(qs["q1"].result).bot)
    /\ Unwrap(Unwrap(qs["q1"].result).bot).name = substitute(BotsYml[2].name, <<>>)

----------------------------------------------------------------------------
(* Device detection: the files and their order *)

\* The pre-filter of the device file lets the user agent through.
FilePasses(p, ua) == DevicePrefilter_matches(p.prefilter, ua)

\* The brand match of the device file on the user agent, if any.
FileBrand(p, ua) == DeviceBrandParser_match_first(p.parser, ua)

\* The file yields a result: a brand match, or its type by claims_type.
FileYields(p, ua) ==
    FilePasses(p, ua) /\ (IsSome(FileBrand(p, ua)) \/ p.claims_type)

\* What the file yields.
FileDevice(p, ua) ==
    IF IsSome(FileBrand(p, ua))
    THEN DeviceOfMatch(Unwrap(FileBrand(p, ua)), p.default_type)
    ELSE [kind |-> Some(p.default_type), brand |-> EmptyStr, model |-> EmptyStr]

\* The files from position k on that yield a result.
YieldingFrom(d, ua, k) ==
    {j \in k..Len(d.device_parsers) : FileYields(d.device_parsers[j], ua)}

\* The device the files from position k on give: that of the first one that
\* yields, decomposed like the locals of parse_with_hints.
DeviceFrom(d, ua, k) ==
    LET yielding == YieldingFrom(d, ua, k)
    IN  IF yielding = {}
        THEN [kind |-> None, brand |-> EmptyStr, model |-> EmptyStr]
        ELSE FileDevice(d.device_parsers[Min(yielding)], ua)

\* The locals the device step has just set.
DeviceLocals(q) == [kind |-> q.device_type, brand |-> q.brand, model |-> q.model]

\* C11: when the iteration reaches a device file whose pre-filter matches and
\* none of whose brands matches, then with claims_type set the device step
\* gives the file's default type with empty brand and model, whatever the
\* later files would find, and with claims_type unset it gives what the
\* files after it give.
C11_ClaimsTypeStopsTheSearch ==
    \A s \in Slots :
        qs[s].pc = "scrub" =>
            LET yielding == YieldingFrom(Detector, qs[s].ua, 1)
            IN  \A k \in 1..Len(Detector.device_parsers) :
                    LET p == Detector.device_parsers[k]
                    IN  (/\ yielding \cap 1..(k - 1) = {}
                         /\ FilePasses(p, qs[s].ua)
                         /\ ~IsSome(FileBrand(p, qs[s].ua))) =>
                            IF p.claims_type
                            THEN DeviceLocals(qs[s]) =
                                    [kind |-> Some(p.default_type), brand |-> EmptyStr,
                                     model |-> EmptyStr]
                            ELSE DeviceLocals(qs[s]) =
                                    DeviceFrom(Detector, qs[s].ua, k + 1)

\* The televisions pre-filter matched without a brand on a user agent that
\* names a phone of mobiles: the device is a TV without brand.
C11_Witness ==
    /\ qs["q1"].pc = "scrub"
    /\ qs["q1"].ua = {"HbbTV/", "SM-G973F"}
    /\ DeviceLocals(qs["q1"]) =
          [kind |-> Some("tv"), brand |-> EmptyStr, model |-> EmptyStr]

\* The device files in the order from_dir lists them.
DeviceFileOrder ==
    <<"shell_tv", "televisions", "consoles", "car_browsers", "cameras",
      "portable_media_player", "notebooks", "mobiles">>

\* C12: the device files are held in the fixed order, and the device step
\* gives what the first file in that order that passes its pre-filter and
\* yields a result gives; no device when no file does.
C12_FirstYieldingFileWins ==
    /\ [k \in 1..Len(DeviceSpecs) |-> DeviceSpecs[k].file] = DeviceFileOrder
    /\ [k \in 1..Len(Detector.device_parsers) |->
            Detector.device_parsers[k].default_type]
         = [k \in 1..Len(DeviceSpecs) |-> DeviceSpecs[k].device_type]
    /\ \A s \in Slots :
          qs[s].pc = "scrub" => DeviceLocals(qs[s]) = DeviceFrom(Detector, qs[s].ua, 1)

\* A console and a phone in one user agent: consoles comes first.
C12_Witness ==
    /\ qs["q1"].pc = "scrub"
    /\ qs["q1"].ua = {"PlayStation", "SM-G973F"}
    /\ qs["q1"].brand = Str("Sony")
    /\ qs["q1"].device_type = Some("console")

\* The type a device string of a rule file names, if any.
RefType(dev) == IF IsSome(dev) THEN DeviceType_from_str(Unwrap(dev)) ELSE None

\* The expansion of an optional template: empty when it is absent.
RefExpand(tpl, caps) == IF IsSome(tpl) THEN RefSubstitute(Unwrap(tpl), caps) ELSE EmptyStr

\* C13: the device of a brand match has the model rule's type, else the
\* brand's, else the file's default; the model rule's brand override, else
\* the brand's name; and as model the model rule's template expanded with
\* the model regex's groups when a model rule matched, the brand's template
\* expanded with the gate's groups when only the gate matched, empty when
\* the applicable template is absent.
C13_DeviceOfBrandMatch ==
    (IsSome(ret) /\ args.fn = "detect_device"
        /\ RegexFires(full_pattern(Unwrap(args.file[1].regex)), args.ua)) =>
        LET e == args.file[1]
            gate_caps == PatCaps(Unwrap(e.regex), args.ua)
            rules == IF IsSome(e.models) THEN Unwrap(e.models) ELSE <<>>
            hit == {j \in 1..Len(rules) : RegexFires(full_pattern(rules[j].regex), args.ua)}
            brand_type == IF IsSome(RefType(e.device)) THEN RefType(e.device)
                          ELSE Some(args.default_type)
        IN  /\ IsSome(Unwrap(ret))
            /\ Unwrap(Unwrap(ret)) =
                  IF hit # {}
                  THEN LET r == rules[Min(hit)]
                       IN  [kind |-> IF IsSome(RefType(r.device)) THEN RefType(r.device)
                                     ELSE brand_type,
                            brand |-> IF IsSome(r.brand) THEN Unwrap(r.brand) ELSE e.name,
                            model |-> RefExpand(r.model, PatCaps(r.regex, args.ua))]
                  ELSE [kind |-> brand_type, brand |-> e.name,
                        model |-> RefExpand(e.model, gate_caps)]

\* A model rule without template and without type matched under a brand
\* that has both: the brand's type, the rule's brand, no model.
C13_Witness ==
    /\ IsSome(ret) /\ args.fn = "detect_device" /\ IsSome(Unwrap(ret))
    /\ args.ua = {"a", "c"}
    /\ args.file[1].model # None
    /\ args.file[1].device = Some("TV")
    /\ args.file[1].models = Some(<<Model(RuleC, None, None, Some(Str("Other")))>>)
    /\ Unwrap(Unwrap(ret)) =
          [kind |-> Some("tv"), brand |-> Str("Other"), model |-> EmptyStr]

----------------------------------------------------------------------------
(* The X-Requested-With override *)

\* The x_requested_with of the hints of a call, if any.
XrwOf(q) == IF IsSome(q.hints) THEN Unwrap(q.hints).x_requested_with ELSE None

\* The call in slot s takes its override step.
TakesXrwStep(s) == qs[s].pc = "xrw" /\ qs'[s].pc = "device"

\* The client detected from the user agent has this name, letter case apart.
DetectedNameIs(ua, name) ==
    /\ IsSome(detect_client(Detector, ua))
    /\ eq_ignore_ascii_case(Unwrap(detect_client(Detector, ua)).name, name)

\* C14: when x_requested_with is a key of app_hints (also when it is a key of
\* browser_hints too, and also when no client was detected), the override
\* step leaves a mobile app of the mapped name, without engine, with the
\* version of the client detected from the user agent only if that client
\* has the mapped name, letter case apart.
C14_AppHintReplacesClient ==
    [][\A s \in Slots :
          (/\ TakesXrwStep(s)
           /\ IsSome(XrwOf(qs[s]))
           /\ Unwrap(XrwOf(qs[s])) \in DOMAIN AppHintsYml) =>
              LET name == AppHintsYml[Unwrap(XrwOf(qs[s]))]
              IN  qs'[s].client =
                    Some([kind |-> "mobile app",
                          name |-> name,
                          version |-> IF DetectedNameIs(qs[s].ua, name)
                                      THEN Unwrap(detect_client(Detector, qs[s].ua)).version
                                      ELSE EmptyStr,
                          engine |-> EmptyStr,
                          engine_version |-> EmptyStr])]_vars

\* The app named by the hint was detected under a name in other letter case:
\* its version is kept.
C14_Witness ==
    /\ qs["q1"].pc = "device"
    /\ qs["q1"].ua = {"myapp/2"}
    /\ XrwOf(qs["q1"]) = Some("com.myapp")
    /\ "com.myapp" \in DOMAIN BrowserHintsYml
    /\ qs["q1"].client =
          Some([kind |-> "mobile app", name |-> Str("MyApp"), version |-> Str("2"),
                engine |-> EmptyStr, engine_version |-> EmptyStr])

\* C15: when x_requested_with is a key of browser_hints and not of app_hints,
\* the override step leaves a browser of the mapped name with the version,
\* engine and engine version of the client detected from the user agent if
\* that client has the mapped name, letter case apart, and all three empty
\* otherwise; a value that is a key of neither map, or no value, leaves the
\* detected client as it is.
C15_BrowserHintReplacesClient ==
    [][\A s \in Slots :
          TakesXrwStep(s) =>
              LET xrw == XrwOf(qs[s])
                  detected == detect_client(Detector, qs[s].ua)
              IN  IF IsSome(xrw) /\ Unwrap(xrw) \in DOMAIN AppHintsYml THEN TRUE
                  ELSE IF IsSome(xrw) /\ Unwrap(xrw) \in DOMAIN BrowserHintsYml
                  THEN LET name == BrowserHintsYml[Unwrap(xrw)]
                           keep == DetectedNameIs(qs[s].ua, name)
                       IN  qs'[s].client =
                             Some([kind |-> "browser",
                                   name |-> name,
                                   version |-> IF keep THEN Unwrap(detected).version
                                               ELSE EmptyStr,
                                   engine |-> IF keep THEN Unwrap(detected).engine
                                              ELSE EmptyStr,
                                   engine_version |->
                                       IF keep THEN Unwrap(detected).engine_version
                                       ELSE EmptyStr])
                  ELSE qs'[s].client = detected]_vars

\* The hint names Chrome and the user agent is of another browser: version
\* and engine are dropped.
C15_Witness ==
    /\ qs["q1"].pc = "device"
    /\ qs["q1"].ua = {"Kylo/"}
    /\ XrwOf(qs["q1"]) = Some("com.android.chrome")
    /\ Unwrap(detect_client(Detector, qs["q1"].ua)).engine = Str("Gecko")
    /\ qs["q1"].client =
          Some([kind |-> "browser", name |-> Str("Chrome"), version |-> EmptyStr,
                engine |-> EmptyStr, engine_version |-> EmptyStr])

----------------------------------------------------------------------------
(* Client detection *)

\* The client rule files with the kind of each, browsers first and PIM last.
ClientTables ==
    << [kind |-> "browser", entries |-> BrowsersYml],
       [kind |-> "feed reader", entries |-> FeedReadersYml],
       [kind |-> "mobile app", entries |-> MobileAppsYml],
       [kind |-> "library", entries |-> LibrariesYml],
       [kind |-> "mediaplayer", entries |-> MediaPlayersYml],
       [kind |-> "pim", entries |-> PimYml] >>

\* The rules of a client table that match the user agent.
FiringClientRules(table, ua) ==
    {i \in 1..Len(table.entries) : RegexFires(full_pattern(table.entries[i].regex), ua)}

\* C16: the client step gives the first matching rule of the first of the six
\* tables, in the order browser, feed reader, mobile app, library, media
\* player, PIM, that has a matching rule, with the kind of that table, and no
\* client when no table has one.
C16_FirstMatchingClientTableWins ==
    \A s \in Slots :
        qs[s].pc = "xrw" =>
            LET ua == qs[s].ua
                hit == {k \in 1..Len(ClientTables) :
                           FiringClientRules(ClientTables[k], ua) # {}}
            IN  IF hit = {} THEN qs[s].client = None
                ELSE LET table == ClientTables[Min(hit)]
                         e == table.entries[Min(FiringClientRules(table, ua))]
                     IN  /\ IsSome(qs[s].client)
                         /\ Unwrap(qs[s].client).kind = table.kind
                         /\ Unwrap(qs[s].client).name =
                               RefSubstitute(e.name, PatCaps(e.regex, ua))

\* A browser rule and a mobile app rule both match: the browser is the client.
C16_Witness ==
    /\ qs["q1"].pc = "xrw"
    /\ qs["q1"].ua = {"Chrome/90", "myapp/2"}
    /\ Unwrap(qs["q1"].client).kind = "browser"
    /\ Unwrap(qs["q1"].client).name = Str("Chrome")

----------------------------------------------------------------------------
(* Engine resolution *)

\* The entries of the versions mapping whose threshold the version reaches.
ReachedEntries(client_data, browser_version) ==
    IF browser_version = EmptyStr \/ ~IsSome(client_data.engine_versions) THEN {}
    ELSE {k \in 1..Len(Unwrap(client_data.engine_versions)) :
             version_ge(browser_version,
                        Unwrap(client_data.engine_versions)[k].threshold)}

\* C17: with a default engine, engine_name is the name of the entry of the
\* versions mapping that comes last in insertion order among those whose
\* threshold the client version reaches, whatever the size of its threshold;
\* it is the default when the version is empty, when there is no mapping and
\* when no threshold is reached.
C17_LastReachedThresholdWins ==
    (IsSome(ret) /\ args.fn = "resolve_engine"
        /\ IsSome(args.client_data.engine_default)) =>
        LET reached == ReachedEntries(args.client_data, args.browser_version)
        IN  Unwrap(ret).engine_name =
                Some(IF reached = {} THEN Unwrap(args.client_data.engine_default)
                     ELSE Unwrap(args.client_data.engine_versions)[Max(reached)].name)

\* Thresholds 3 then 1 are both reached by version 3: the entry of 1 wins.
C17_Witness ==
    /\ IsSome(ret) /\ args.fn = "resolve_engine"
    /\ args.browser_version = <<"3">>
    /\ args.client_data.engine_default = Some(Str("Gecko"))
    /\ args.client_data.engine_versions =
          Some(<<[threshold |-> <<"3">>, name |-> Str("Blink")],
                 [threshold |-> <<"1">>, name |-> Str("webkit")]>>)
    /\ Unwrap(ret).engine_name = Some(Str("webkit"))

\* The first rule of the engine rules of the call that matches the user
\* agent, if any.
FirstEngineRule(ua) ==
    LET firing == {i \in 1..Len(args.engines) :
                      RegexFires(full_pattern(args.engines[i].regex), ua)}
    IN  IF firing = {} THEN None ELSE Some(args.engines[Min(firing)])

\* C18: with a non-empty engine_name the result is the engine rule's name
\* and its group 1 only if the first matching engine rule has that name,
\* letter case apart; otherwise it is engine_name with an empty version.
C18_EngineRuleMustAgree ==
    (/\ IsSome(ret) /\ args.fn = "resolve_engine"
     /\ IsSome(Unwrap(ret).engine_name)
     /\ Unwrap(Unwrap(ret).engine_name) # EmptyStr) =>
        LET chosen == Unwrap(Unwrap(ret).engine_name)
            rule == FirstEngineRule(args.ua)
        IN  Unwrap(ret).result =
                IF IsSome(rule) /\ eq_ignore_ascii_case(Unwrap(rule).name, chosen)
                THEN <<Unwrap(rule).name,
                       capture_or_empty(PatCaps(Unwrap(rule).regex, args.ua), 1)>>
                ELSE <<chosen, EmptyStr>>

\* The rule of the chosen engine matches, but a rule of another engine
\* matches before it: no engine version.
C18_Witness ==
    /\ IsSome(ret) /\ args.fn = "resolve_engine"
    /\ args.ua = {"AppleWebKit/537", "Chrome/90"}
    /\ Unwrap(ret).engine_name = Some(Str("Blink"))
    /\ Unwrap(ret).result = <<Str("Blink"), EmptyStr>>

----------------------------------------------------------------------------
(* The steps between device matching and the heuristics *)

\* The call in slot s leaves a position.
Leaves(s, from) == qs[s].pc = from /\ qs'[s].pc # from

\* The brand of the first vendor fragment, in file order, that matches.
FirstVendorFragmentBrand(ua) ==
    LET items == VendorFragmentItems(VendorFragmentsYml, 1)
    IN  IF FiringRules(items, ua) = {} THEN None
        ELSE Some(items[Min(FiringRules(items, ua))].data.brand)

\* C19: the step after device matching replaces the brand "Unknown" by the
\* empty brand and keeps kind and model; the vendor-fragment step comes
\* next, before Apple normalisation and the heuristics, changes nothing when
\* the brand is not empty, and otherwise sets the brand, and only the brand,
\* from the first matching fragment.
C19_UnknownScrubbedThenVendorFragment ==
    [][\A s \in Slots :
          /\ Leaves(s, "device") => qs'[s].pc = "scrub"
          /\ Leaves(s, "scrub") =>
                /\ qs'[s].pc = "vendor"
                /\ qs'[s].brand = IF qs[s].brand = Str("Unknown") THEN EmptyStr
                                  ELSE qs[s].brand
                /\ qs'[s].device_type = qs[s].device_type
                /\ qs'[s].model = qs[s].model
          /\ Leaves(s, "vendor") =>
                /\ qs'[s].pc = "apple"
                /\ qs[s].brand # Str("Unknown")
                /\ qs'[s].brand =
                      IF qs[s].brand = EmptyStr
                         /\ IsSome(FirstVendorFragmentBrand(qs[s].ua))
                      THEN Unwrap(FirstVendorFragmentBrand(qs[s].ua))
                      ELSE qs[s].brand
                /\ qs'[s].device_type = qs[s].device_type
                /\ qs'[s].model = qs[s].model
          /\ Leaves(s, "apple") => qs'[s].pc = "heuristics"]_vars

\* The brand matched by mobiles was "Unknown": the kind of the match stays
\* and the brand comes from the vendor fragment, the first of the two
\* fragments that match.
C19_Witness ==
    /\ qs["q1"].pc = "apple"
    /\ qs["q1"].ua = {"WebTV", "MDDR;"}
    /\ DeviceFrom(Detector, qs["q1"].ua, 1).brand = Str("Unknown")
    /\ qs["q1"].brand = Str("Dell")
    /\ qs["q1"].device_type = Some("feature phone")

\* The operating systems of Apple devices.
AppleOsNames == {Str("iPadOS"), Str("tvOS"), Str("watchOS"), Str("iOS"), Str("Mac")}

\* C20: Apple normalisation, the step between the vendor-fragment fallback
\* and the heuristics: a brand "Apple" on a system that is not Apple's clears
\* kind, brand and model; an empty brand on an Apple system becomes "Apple"
\* with kind and model kept; in every other case the three are unchanged.
C20_AppleNormalisation ==
    [][\A s \in Slots :
          /\ Leaves(s, "vendor") => qs'[s].pc = "apple"
          /\ Leaves(s, "apple") =>
                LET is_apple_os ==
                        IsSome(qs[s].os) /\ Unwrap(qs[s].os).name \in AppleOsNames
                IN  /\ qs'[s].pc = "heuristics"
                    /\ DeviceLocals(qs'[s]) =
                          IF qs[s].brand = Str("Apple") /\ ~is_apple_os
                          THEN [kind |-> None, brand |-> EmptyStr, model |-> EmptyStr]
                          ELSE IF qs[s].brand = EmptyStr /\ is_apple_os
                          THEN [DeviceLocals(qs[s]) EXCEPT !.brand = Str("Apple")]
                          ELSE DeviceLocals(qs[s])]_vars

\* An iPhone rule matched on a user agent without operating system: nothing
\* of the device is left.
C20_Witness ==
    /\ qs["q1"].pc = "heuristics"
    /\ qs["q1"].ua = {"iPhone"}
    /\ DeviceFrom(Detector, qs["q1"].ua, 1) =
          [kind |-> Some("smartphone"), brand |-> Str("Apple"), model |-> Str("iPhone")]
    /\ DeviceLocals(qs["q1"]) =
          [kind |-> None, brand |-> EmptyStr, model |-> EmptyStr]

----------------------------------------------------------------------------
(* Client hints for the device *)

\* The model and the mobile flag of the hints of a call, if any.
HintModelOf(q) == IF IsSome(q.hints) THEN Unwrap(q.hints).model ELSE None

HintMobileOf(q) == IF IsSome(q.hints) THEN Unwrap(q.hints).mobile ELSE None

\* C21: the hints for the device are fallbacks. The heuristics, desktop
\* inference included, are followed by the model step, which takes a
\* non-empty hints.model only when the model is empty and changes nothing
\* else; then by the mobile step, which sets smartphone only when the kind is
\* unset and hints.mobile is true and changes nothing else; and the final
\* device has the kind and the model these two steps left.
C21_DeviceHintsAreFallbacks ==
    [][\A s \in Slots :
          /\ Leaves(s, "heuristics") => qs'[s].pc = "hint_model"
          /\ Leaves(s, "hint_model") =>
                LET hint_model == HintModelOf(qs[s])
                    used == /\ qs[s].model = EmptyStr
                            /\ IsSome(hint_model)
                            /\ Unwrap(hint_model) # EmptyStr
                IN  /\ qs'[s].pc = "hint_mobile"
                    /\ DeviceLocals(qs'[s]) =
                          IF used
                          THEN [DeviceLocals(qs[s]) EXCEPT !.model = Unwrap(hint_model)]
                          ELSE DeviceLocals(qs[s])
          /\ Leaves(s, "hint_mobile") =>
                LET used == /\ qs[s].device_type = None
                            /\ HintMobileOf(qs[s]) = Some(TRUE)
                IN  /\ qs'[s].pc = "build"
                    /\ DeviceLocals(qs'[s]) =
                          IF used
                          THEN [DeviceLocals(qs[s]) EXCEPT !.kind = Some("smartphone")]
                          ELSE DeviceLocals(qs[s])
          /\ Leaves(s, "build") =>
                LET device == Unwrap(qs'[s].result).device
                IN  IsSome(device) => Unwrap(device) = DeviceLocals(qs[s])]_vars

\* A desktop system with hints.mobile = true: the kind inferred from the
\* system stays.
C21_Witness ==
    /\ qs["q1"].pc = "build"
    /\ qs["q1"].ua = {"Windows NT 10.0"}
    /\ HintMobileOf(qs["q1"]) = Some(TRUE)
    /\ qs["q1"].device_type = Some("desktop")

----------------------------------------------------------------------------
(* Device-type strings that name no type *)

\* The device string is present and DeviceType::from_str knows no type for it.
NamesNoType(dev) == IsSome(dev) /\ ~IsSome(DeviceType_from_str(Unwrap(dev)))

\* The device file declares such a string for a brand or for a model rule.
DeclaresUnknownType(file) ==
    \E i \in 1..Len(file) :
        \/ NamesNoType(file[i].device)
        \/ /\ IsSome(file[i].models)
           /\ \E j \in 1..Len(Unwrap(file[i].models)) :
                 NamesNoType(Unwrap(file[i].models)[j].device)

\* C26: a device file that declares, for a brand or a model rule, a device
\* string that names no type of the enumeration does not load: building its
\* parser fails.
C26_UnknownDeviceTypeFailsLoad ==
    (args.fn = "detect_device" /\ DeclaresUnknownType(args.file)) =>
        ~build_device_brand_parser(args.file, args.default_type).ok

\* The file of a console parser declares "bogus" for its brand: the parser is
\* built, and a user agent of that brand is classified as a console.
C26_Witness ==
    /\ args.fn = "detect_device"
    /\ args.default_type = "console"
    /\ NamesNoType(args.file[1].device)
    /\ args.file[1].models = None
    /\ args.ua = {"a"}
    /\ build_device_brand_parser(args.file, args.default_type).ok
    /\ ret # None
    /\ IsSome(Unwrap(ret))
    /\ Unwrap(Unwrap(ret)).kind = Some("console")

----------------------------------------------------------------------------
(* Construction failures *)

\* The variants of error.rs.
ErrorVariants == {"IO", "YAML", "Regex", "RegexFilteredParse", "RegexFilteredBuild"}

ConstructionFailureWithoutPushErr ==
    (/\ args.fn = "from_dir"
     /\ ret # None
     /\ \A x \in args.faults : x[1] # "push_err") =>
        IF args.faults = {}
        THEN Unwrap(ret).outcome = "" /\ Unwrap(ret).detector = Some(Detector)
        ELSE Unwrap(ret).outcome \in ErrorVariants /\ Unwrap(ret).detector = None

----------------------------------------------------------------------------
(* Construction order *)

\* The kinds of the rules of a client parser.
KindsOf(parser) == {parser.data[i].kind : i \in 1..Len(parser.data)}

\* C23: whatever the order in which the tasks of the construction end, a
\* classification sits at the index of its rule, a client parser at the
\* position of its file and bound to the facet of that file, a device parser
\* at the position of its file, and the detector put together at the end is
\* the one the sequential construction gives, every table in the rule order
\* of its source.
C23_ConstructionIsOrderIndependent ==
    args.fn = "par_from_dir" =>
        /\ \A i \in 1..Len(ret.is_standard) :
              IsSome(ret.is_standard[i]) =>
                  Unwrap(ret.is_standard[i]) = (args.dir.bots[i].regex.syntax = "std")
        /\ \A k \in 1..Len(ret.client_parsers) :
              IsSome(ret.client_parsers[k]) =>
                  /\ KindsOf(Unwrap(ret.client_parsers[k])) = {ClientSpecs[k].kind}
                  /\ [i \in 1..Len(Unwrap(ret.client_parsers[k]).data) |->
                          Unwrap(ret.client_parsers[k]).data[i].name]
                       = [i \in 1..Len(args.dir[ClientSpecs[k].file]) |->
                             args.dir[ClientSpecs[k].file][i].name]
        /\ \A i \in 1..Len(ret.built_items) :
              IsSome(ret.built_items[i]) =>
                  Unwrap(ret.built_items[i]).data.brand =
                      SelectSeq(args.dir.consoles, HasRegex)[i].name
        /\ \A k \in 1..Len(ret.device_parsers) :
              IsSome(ret.device_parsers[k]) =>
                  Unwrap(ret.device_parsers[k]) = Detector.device_parsers[k]
        /\ IsSome(ret.detector) =>
              /\ args.dir = RegexesDir
              /\ Unwrap(ret.detector) = Detector
              /\ KindsOf(Unwrap(ret.detector).browser_parser) = {"browser"}
              /\ KindsOf(Unwrap(ret.detector).feed_reader_parser) = {"feed reader"}
              /\ KindsOf(Unwrap(ret.detector).mobile_app_parser) = {"mobile app"}
              /\ KindsOf(Unwrap(ret.detector).library_parser) = {"library"}
              /\ KindsOf(Unwrap(ret.detector).media_player_parser) = {"mediaplayer"}
              /\ KindsOf(Unwrap(ret.detector).pim_parser) = {"pim"}
              /\ [i \in 1..Len(args.dir.bots) |->
                      Unwrap(ret.detector).bot_parser.data[i].name]
                   = [i \in 1..Len(args.dir.bots) |-> args.dir.bots[i].name]

\* The construction has ended: the detector is complete, with the PIM parser
\* last of the client parsers and the brands of consoles.yml in file order.
C23_Witness ==
    /\ args.fn = "par_from_dir"
    /\ IsSome(ret.detector)
    /\ Unwrap(ret.detector).pim_parser.data[1].name = Str("Outlook")
    /\ Unwrap(ret.detector).device_parsers[ConsolesIdx].default_type = "console"
    /\ Unwrap(ret.detector).device_parsers[ConsolesIdx].parser.brands[2].data.brand =
          Str("Microsoft")

----------------------------------------------------------------------------
(* The heuristic ladder *)

\* The locals after each of the rules H1..H21 in turn: element h + 1 holds
\* them after rule h, element 1 at the entry of the ladder.
RECURSIVE LadderTrace(_, _, _)
LadderTrace(h, d, q) ==
    IF h > 21 THEN <<q>>
    ELSE <<q>> \o LadderTrace(h + 1, d, HeuristicRule(h, d, q))

\* The rules conditioned on an unset kind, and those that reclassify or are
\* unconditional.
UnsetRules == {1, 2, 4, 5, 6, 8, 10, 11, 12, 13, 17, 19, 21}

ReclassifyingRules == {3, 7, 9, 14, 15, 16, 18, 20}

\* C24: the heuristics step applies H1..H21 in this order.  A rule
\* conditioned on an unset kind leaves a set kind as it is; a set kind is
\* changed by H3 (smartphone to tablet), H7 (feature phone to smartphone),
\* H9, H14, H15, H16 (never from tv or peripheral), H18 and H20 only; the
\* brand is changed by H15 only and the model by no rule.
C24_LadderInOrderWithFrames ==
    [][\A s \in Slots :
          Leaves(s, "heuristics") =>
              LET T == LadderTrace(1, Detector, qs[s])
              IN  /\ DeviceLocals(qs'[s]) = DeviceLocals(T[22])
                  /\ \A h \in 1..21 :
                        LET before == T[h]
                            after == T[h + 1]
                            changed == after.device_type # before.device_type
                        IN  /\ (IsSome(before.device_type) /\ changed) =>
                                  h \in ReclassifyingRules
                            /\ (h \in UnsetRules /\ IsSome(before.device_type)) =>
                                  ~changed
                            /\ (h = 3 /\ changed) =>
                                  /\ before.device_type = Some("smartphone")
                                  /\ after.device_type = Some("tablet")
                            /\ (h = 7 /\ changed) =>
                                  /\ before.device_type = Some("feature phone")
                                  /\ after.device_type = Some("smartphone")
                            /\ (h = 16 /\ before.device_type
                                            \in {Some("tv"), Some("peripheral")}) =>
                                  ~changed
                            /\ after.brand # before.brand => h = 15
                            /\ after.model = before.model
                            /\ IsSome(before.device_type) => IsSome(after.device_type)]_vars

\* A feature phone on Android: the device rules left a feature phone and H7
\* made it a smartphone, which every later rule kept.
C24_Witness ==
    /\ qs["q1"].pc = "hint_model"
    /\ qs["q1"].ua = {"WebTV", "Android 10"}
    /\ IsAndroidFamily(qs["q1"])
    /\ qs["q1"].device_type = Some("smartphone")

----------------------------------------------------------------------------
(* The Apple brand and the Apple systems in a result *)

\* A finished call that reported no bot.
NonBotResult(s) ==
    /\ qs[s].pc = "done"
    /\ IsSome(qs[s].result)
    /\ ~IsSome(Unwrap(qs[s].result).bot)

\* C28: in a result that reports no bot, a device brand "Apple" comes with
\* an os.name of iPadOS, tvOS, watchOS, iOS or Mac, and an os.name of one of
\* those comes with a device whose brand is not empty.
C28_AppleBrandIffAppleOs ==
    \A s \in Slots :
        NonBotResult(s) =>
            LET r == Unwrap(qs[s].result)
                os_name == IF IsSome(r.os) THEN Unwrap(r.os).name ELSE EmptyStr
            IN  /\ (IsSome(r.device) /\ Unwrap(r.device).brand = Str("Apple")) =>
                      os_name \in AppleOsNames
                /\ os_name \in AppleOsNames =>
                      /\ IsSome(r.device)
                      /\ Unwrap(r.device).brand # EmptyStr

\* A Mac with no device rule matching: the result carries the brand Apple.
C28_Witness ==
    /\ NonBotResult("q1")
    /\ qs["q1"].ua = {"Mac OS X"}
    /\ Unwrap(Unwrap(qs["q1"].result).os).name = Str("Mac")
    /\ Unwrap(Unwrap(qs["q1"].result).device).brand = Str("Apple")

----------------------------------------------------------------------------
(* The Desktop fragment *)

\* ua.contains("Desktop") and the Desktop fragment regex matches.
HasDesktopFragment(ua) ==
    /\ PatMatches(DesktopSubstring, ua)
    /\ IsMatchOrFalse(Detector.heuristic_regexes.desktop_fragment, ua)

\* C29: a call that reports no bot on a user agent that contains "Desktop"
\* and matches the Desktop fragment regex has the kind desktop from the end
\* of the heuristics to the result, whatever the device files, the earlier
\* blocks and the hints gave.
C29_DesktopFragmentWins ==
    \A s \in Slots :
        (qs[s].pc \in {"hint_model", "hint_mobile", "build", "done"}
         /\ HasDesktopFragment(qs[s].ua)) =>
            /\ qs[s].pc # "done" => qs[s].device_type = Some("desktop")
            /\ NonBotResult(s) =>
                  /\ IsSome(Unwrap(qs[s].result).device)
                  /\ Unwrap(Unwrap(qs[s].result).device).kind = Some("desktop")

\* A user agent of the Opera TV Store with the Desktop fragment: block H14
\* made it a tv and H20 a desktop, which the result reports.
C29_Witness ==
    /\ NonBotResult("q1")
    /\ qs["q1"].ua = {"Opera TV Store", "Desktop;"}
    /\ HeuristicRule(14, Detector, Start(qs["q1"].ua, None)).device_type = Some("tv")
    /\ Unwrap(Unwrap(qs["q1"].result).device).kind = Some("desktop")

----------------------------------------------------------------------------
(* resolve_engine: the engine matcher consulted directly *)

\* What the engine matcher gives by itself: the name of the first engine
\* rule that matches and its group 1, or two empty strings.
DirectEngine(ua) ==
    LET rule == FirstEngineRule(ua)
    IN  IF IsSome(rule)
        THEN <<Unwrap(rule).name,
               capture_or_empty(PatCaps(Unwrap(rule).regex, ua), 1)>>
        ELSE <<EmptyStr, EmptyStr>>

\* The result is what the engine matcher gives by itself when the client
\* rule has no default engine, whatever its versions mapping, and when it
\* has one but the engine name chosen is empty.
DirectEngineCases ==
    (IsSome(ret) /\ args.fn = "resolve_engine") =>
        LET r == Unwrap(ret)
        IN  /\ ~IsSome(args.client_data.engine_default) =>
                  r.result = DirectEngine(args.ua)
            /\ r.engine_name = Some(EmptyStr) =>
                  r.result = DirectEngine(args.ua)

\* An empty engine name returned with an engine version that is not empty.
UnnamedEngineWithVersion ==
    /\ IsSome(ret) /\ args.fn = "resolve_engine"
    /\ Unwrap(ret).result[1] = EmptyStr
    /\ Unwrap(ret).result[2] # EmptyStr

\* C30 as stated: resolve_engine returns what the engine matcher gives by
\* itself in the two cases, and in no case an empty engine name with an
\* engine version that is not empty.
C30_DirectEngineNeverUnnamedVersion ==
    /\ DirectEngineCases
    /\ ~UnnamedEngineWithVersion

\* C30, amended: resolve_engine returns what the engine matcher gives by
\* itself in the two cases; an empty engine name comes with an engine
\* version that is not empty only when the engine matcher is consulted
\* directly and the first engine rule that matches has an empty name.
C30_DirectEngineUnnamedOnlyFromRule ==
    /\ DirectEngineCases
    /\ UnnamedEngineWithVersion =>
          /\ \/ ~IsSome(args.client_data.engine_default)
             \/ Unwrap(ret).engine_name = Some(EmptyStr)
          /\ IsSome(FirstEngineRule(args.ua))
          /\ Unwrap(FirstEngineRule(args.ua)).name = EmptyStr
    /\ (\A i \in 1..Len(args.engines) : args.engines[i].name # EmptyStr) =>
          ~UnnamedEngineWithVersion

\* A default engine Gecko overridden by an empty name at threshold 2, for
\* version 3 and a user agent of WebKit: the engine matcher is consulted
\* directly and gives WebKit 537.
C30_Witness ==
    /\ IsSome(ret) /\ args.fn = "resolve_engine"
    /\ args.engines = BrowserEngineYml
    /\ args.ua = {"AppleWebKit/537"}
    /\ args.browser_version = <<"3">>
    /\ args.client_data.engine_default = Some(Str("Gecko"))
    /\ args.client_data.engine_versions =
          Some(<<[threshold |-> <<"2">>, name |-> EmptyStr]>>)
    /\ Unwrap(ret).engine_name = Some(EmptyStr)
    /\ Unwrap(ret).result = <<Str("WebKit"), <<"5", "3", "7">>>>

----------------------------------------------------------------------------
(* Two calls that differ in their hints only *)

\* The brand of the device of a result, empty without a device.
ResultBrand(r) == IF IsSome(r.device) THEN Unwrap(r.device).brand ELSE EmptyStr

ResultModel(r) == IF IsSome(r.device) THEN Unwrap(r.device).model ELSE EmptyStr

ResultKind(r) == IF IsSome(r.device) THEN Unwrap(r.device).kind ELSE None

\* The client name that block H18 tests is that of a TV client.
TestedAsTvClient(call) == ClientName(call.ladder) \in TvClientNames

\* hints.mobile == Some(true) took effect: the heuristics left no kind.
MobileHintApplies(call) ==
    /\ ~IsSome(call.ladder.device_type)
    /\ call.ladder.pc # "done"
    /\ HintMobileOf(call.ladder) = Some(TRUE)

\* C27: two calls on one user agent that differ in their hints report the
\* same bot, the same os and the same device brand.  Their models differ
\* only when the rules gave no model, each model then being that of the
\* call's hints; their kinds differ only when hints.mobile set the kind of
\* one of them, left unset by the heuristics, or when the x_requested_with
\* overrides gave them client names that block H18 tests differently.
C27_HintsReachModelAndKindOnly ==
    (IsSome(ret) /\ args.fn = "parse_with_hints") =>
        LET a == Unwrap(ret)[1]
            b == Unwrap(ret)[2]
            ra == Unwrap(a.final.result)
            rb == Unwrap(b.final.result)
        IN  /\ ra.bot = rb.bot
            /\ ra.os = rb.os
            /\ ResultBrand(ra) = ResultBrand(rb)
            /\ a.ladder.model = b.ladder.model
            /\ ResultModel(ra) # ResultModel(rb) =>
                  /\ a.ladder.model = EmptyStr
                  /\ \A c \in {a, b} :
                        ResultModel(Unwrap(c.final.result)) \in
                            {EmptyStr} \cup
                            (IF IsSome(HintModelOf(c.ladder))
                             THEN {Unwrap(HintModelOf(c.ladder))} ELSE {})
            /\ ResultKind(ra) # ResultKind(rb) =>
                  \/ MobileHintApplies(a)
                  \/ MobileHintApplies(b)
                  \/ TestedAsTvClient(a) # TestedAsTvClient(b)
            /\ TestedAsTvClient(a) = TestedAsTvClient(b) =>
                  a.ladder.device_type = b.ladder.device_type

\* The user agent of a TV browser on Android: without hints the kind is tv
\* by block H18; with an x_requested_with that names an app the client is
\* the app, and with hints.mobile the kind is smartphone.  The os agrees.
C27_Witness ==
    /\ IsSome(ret) /\ args.fn = "parse_with_hints"
    /\ args.ua = {"Kylo/"}
    /\ args.hints = <<None, Some([x_requested_with |-> Some("com.myapp"),
                                  model |-> Some(Str("HintModel")),
                                  mobile |-> Some(TRUE)])>>
    /\ ResultKind(Unwrap(Unwrap(ret)[1].final.result)) = Some("tv")
    /\ ResultKind(Unwrap(Unwrap(ret)[2].final.result)) = Some("smartphone")
    /\ ResultModel(Unwrap(Unwrap(ret)[2].final.result)) = Str("HintModel")

----------------------------------------------------------------------------
(* The literal pre-filter *)

\* A call of extract_literals has returned.
LiteralsReturned == IsSome(ret) /\ args.fn = "extract_literals"

\* Some returned literal occurs in the lowercased input.
SomeLiteralOccurs ==
    \E k \in 1..Len(Unwrap(ret)) :
        str_contains(str_to_lowercase(args.input), Unwrap(ret)[k])

\* Every returned literal is lowercase and has min_len bytes at least; a
\* pattern that does not parse, and one with no literal of min_len bytes,
\* gives the empty list.
LiteralsLowercaseAndLong ==
    LiteralsReturned =>
        /\ \A k \in 1..Len(Unwrap(ret)) :
              /\ Unwrap(ret)[k] = str_to_lowercase(Unwrap(ret)[k])
              /\ Len(Unwrap(ret)[k]) >= args.min_len
        /\ args.pattern.syntax # "ok" => Unwrap(ret) = <<>>
        /\ (\A a \in 1..Len(args.pattern.alts) :
               Len(args.pattern.alts[a].lit) < args.min_len) => Unwrap(ret) = <<>>

\* C25: the pre-filter of extract_literals(pattern, L) filters out no rule
\* that matches: when the pattern matches the input, the list returned is
\* empty or one of its literals occurs in the lowercased input; every
\* literal returned is lowercase and has L bytes at least; a pattern whose
\* analysis fails or gives no literal of L bytes gives the empty list.
C25_PrefilterKeepsMatchingRules ==
    /\ LiteralsLowercaseAndLong
    /\ (LiteralsReturned /\ LitPatternMatches(args.pattern, args.input)) =>
          (Unwrap(ret) = <<>> \/ SomeLiteralOccurs)

\* The pattern "x|FF" with L = 2 on the input "x": the pattern matches by
\* its first branch, whose literal is dropped as too short, and the list
\* returned holds "ff" only, which is not in the input.
C25_Witness ==
    /\ LiteralsReturned
    /\ args.pattern = [syntax |-> "ok",
                       alts |-> <<[lit |-> <<"x">>, digits |-> FALSE],
                                  [lit |-> <<"F", "F">>, digits |-> FALSE]>>]
    /\ args.min_len = 2
    /\ args.input = <<"x">>
    /\ LitPatternMatches(args.pattern, args.input)
    /\ Unwrap(ret) = <<<<"f", "f">>>>

====
